---------------------------- MODULE Spec2Model ----------------------------
(***************************************************************************)
(* Route-aware apartment search (getRouteAndApartments.ts and the older    *)
(* revisions of the same pipeline): the distance buckets, the two          *)
(* deduplicators, the residential classifier, the polyline codec, and the  *)
(* request pipeline with its process-wide cache and hourly quota counter.  *)
(*                                                                         *)
(* Units.  Coordinates are integers in micro-degrees (1e-6 degree).        *)
(* Distances in kilometres are integers in units of 10 m (1e-2 km).        *)
(* Distances in miles are integers in units of 1e-8 mile, so that          *)
(* km * 0.621371 is exact: (k * 1e-2 km) * 0.621371 = (k * 621371) * 1e-8. *)
(* The bucket names "le1mi", "le2mi", "le3mi" stand for the source's       *)
(* "<=1mi", "<=2mi", "<=3mi" (written there with the one-character sign).  *)
(***************************************************************************)
EXTENDS Integers, Sequences, FiniteSets, TLC

VARIABLES
    fn,                 \* the pure function under test ("pipeline" when none)
    input,              \* its argument
    output,             \* the results of its successive applications
    simpleCache,        \* simpleCache: Map<string, any> (sar: and nearby: keys)
    sarCallsThisHour,   \* let sarCallsThisHour
    sarQuotaResetTime,  \* let sarQuotaResetTime
    now,                \* Date.now()
    call,               \* one getRouteAndApartments invocation per caller
    insertedAt          \* when each entry of simpleCache was set (not in the source)

harnessVars == <<fn, input, output>>
sysVars == <<simpleCache, sarCallsThisHour, sarQuotaResetTime, now, call, insertedAt>>
vars == <<fn, input, output, simpleCache, sarCallsThisHour, sarQuotaResetTime, now, call,
          insertedAt>>

-----------------------------------------------------------------------------
(* Generic helpers *)

Abs(x) == IF x < 0 THEN -x ELSE x

Range(s) == {s[i] : i \in 1..Len(s)}

RECURSIVE SeqsUpTo(_, _)
\* all sequences over S of length at most n
SeqsUpTo(S, n) ==
    IF n = 0 THEN {<<>>}
    ELSE LET shorter == SeqsUpTo(S, n - 1)
         IN  shorter \cup {Append(s, x) : s \in {t \in shorter : Len(t) = n - 1}, x \in S}

-----------------------------------------------------------------------------
(* Units *)

MilesScale == 10 ^ 8            \* units of 1e-8 mile in one mile
KmToMilesFactor == 621371       \* 0.621371 mile per km, scaled by 1e6
KmScale == 10 * 10              \* units of 10 m in one km

\* distanceKm * 0.621371 (processApartmentDistancesLight)
kmToMiles(distanceKm) == distanceKm * KmToMilesFactor

-----------------------------------------------------------------------------
(* Distance buckets *)

getBucketFromDistance_strict(distanceMiles) ==
    IF distanceMiles < 1 * MilesScale THEN "le1mi"
    ELSE IF distanceMiles < 2 * MilesScale THEN "le2mi"
    ELSE "le3mi"

getBucketFromDistance(distanceMiles) ==
    IF distanceMiles <= 1 * MilesScale THEN "le1mi"
    ELSE IF distanceMiles <= 2 * MilesScale THEN "le2mi"
    ELSE "le3mi"

DistanceBucket == {"le1mi", "le2mi", "le3mi"}

-----------------------------------------------------------------------------
(* Geohash keys and library distances *)

GEOHASH_PRECISION == 5

\* Number.prototype.toFixed(precision) of m micro-degrees: <<sign, digits>>, the
\* sign kept when a negative number rounds to zero ("-0.00000"); digits are
\* the magnitude rounded to `precision` decimals, a tie going up
toFixed(m, precision) ==
    LET cell == 10 ^ (6 - precision)
    IN  <<m < 0, (Abs(m) + cell \div 2) \div cell>>

\* `${lat.toFixed(precision)}:${lng.toFixed(precision)}`
encodeGeohash(lat, lng, precision) == <<toFixed(lat, precision), toFixed(lng, precision)>>

MicroDegPerMetre == 9           \* micro-degrees of arc in one metre (8.993 on the Earth)

\* @turf/distance(from, to, {units: "meters"}) in whole metres, for two points on
\* one meridian or one parallel near the equator, where the great-circle
\* distance is proportional to the coordinate difference
distance(from, to) ==
    (Abs(from.lat - to.lat) + Abs(from.lng - to.lng)) \div MicroDegPerMetre

RECURSIVE ISqrt_from(_, _)
ISqrt_from(n, r) == IF (r + 1) * (r + 1) > n THEN r ELSE ISqrt_from(n, r + 1)

\* the integer part of the square root
ISqrt(n) == ISqrt_from(n, 0)

Min(a, b) == IF a <= b THEN a ELSE b
Max(a, b) == IF a >= b THEN a ELSE b

\* the distance in units of 10 m from pt to the segment from a to b of a line
\* that runs along a meridian (a.lng = b.lng)
SegmentDistKm(a, b, pt) ==
    LET south == Min(a.lat, b.lat)
        north == Max(a.lat, b.lat)
        dLat == Max(Max(south - pt.lat, pt.lat - north), 0) \div (10 * MicroDegPerMetre)
        dLng == Abs(pt.lng - a.lng) \div (10 * MicroDegPerMetre)
    IN  IF dLat = 0 THEN dLng ELSE IF dLng = 0 THEN dLat ELSE ISqrt(dLat * dLat + dLng * dLng)

RECURSIVE MinOver(_)
MinOver(values) ==
    IF Len(values) = 1 THEN values[1] ELSE Min(values[1], MinOver(Tail(values)))

\* the distance, in units of 10 m, from pt to the nearest vertex of the line
nearestPointOnLine_nearestVertex(line, pt) ==
    MinOver([i \in 1..Len(line) |-> SegmentDistKm(line[i], line[i], pt)])

\* nearestPointOnLine(lineString(line), point(pt), {units: "kilometers"}).properties.dist,
\* in units of 10 m: the least distance from pt to a segment of the line
nearestPointOnLine(line, pt) ==
    MinOver([i \in 1..(Len(line) - 1) |-> SegmentDistKm(line[i], line[i + 1], pt)])

-----------------------------------------------------------------------------
(* Deduplicators *)

RECURSIVE deduplicateByGeohash_loop(_, _, _)
deduplicateByGeohash_loop(apartments, seenGeohashes, kept) ==
    IF apartments = <<>> THEN kept
    ELSE LET apt == Head(apartments)
         IN  IF apt.geohash \in seenGeohashes
             THEN deduplicateByGeohash_loop(Tail(apartments), seenGeohashes, kept)
             ELSE deduplicateByGeohash_loop(Tail(apartments),
                                            seenGeohashes \cup {apt.geohash},
                                            Append(kept, apt))

RECURSIVE deduplicateByGeohash_keepLast(_)
\* a deduplicator that lets the last occurrence of a key win
deduplicateByGeohash_keepLast(apartments) ==
    IF apartments = <<>> THEN <<>>
    ELSE LET apt == Head(apartments)
             rest == Tail(apartments)
         IN  IF \E i \in 1..Len(rest) : rest[i].geohash = apt.geohash
             THEN deduplicateByGeohash_keepLast(rest)
             ELSE <<apt>> \o deduplicateByGeohash_keepLast(rest)

\* apartments.filter(apt => !seen.has(apt.geohash) && seen.add(apt.geohash))
deduplicateByGeohash(apartments) == deduplicateByGeohash_loop(apartments, {}, <<>>)

RECURSIVE deduplicateApartments_loop(_, _, _)
deduplicateApartments_loop(apartments, seenPlaceIds, deduplicated) ==
    IF apartments = <<>> THEN deduplicated
    ELSE LET apartment == Head(apartments)
         IN  IF apartment.place_id \notin seenPlaceIds
             THEN deduplicateApartments_loop(Tail(apartments),
                                             seenPlaceIds \cup {apartment.place_id},
                                             Append(deduplicated, apartment))
             ELSE deduplicateApartments_loop(Tail(apartments), seenPlaceIds, deduplicated)

\* the place_id deduplicator of the test suite
deduplicateApartments(apartments) == deduplicateApartments_loop(apartments, {}, <<>>)

MIN_DISTANCE_METERS == 100

RECURSIVE deduplicateApartmentsByProximity_loop(_, _)
deduplicateApartmentsByProximity_loop(apartments, deduplicated) ==
    IF apartments = <<>> THEN deduplicated
    ELSE LET apt == Head(apartments)
             isDuplicate == \E k \in 1..Len(deduplicated) :
                                distance(apt, deduplicated[k]) < MIN_DISTANCE_METERS
         IN  deduplicateApartmentsByProximity_loop(
                 Tail(apartments),
                 IF isDuplicate THEN deduplicated ELSE Append(deduplicated, apt))

RECURSIVE deduplicateApartmentsByProximity_prev(_, _, _)
deduplicateApartmentsByProximity_prev(apartments, prev, deduplicated) ==
    IF apartments = <<>> THEN deduplicated
    ELSE LET apt == Head(apartments)
             isDuplicate == prev # <<>> /\ distance(apt, prev[1]) < MIN_DISTANCE_METERS
         IN  deduplicateApartmentsByProximity_prev(
                 Tail(apartments), <<apt>>,
                 IF isDuplicate THEN deduplicated ELSE Append(deduplicated, apt))

\* a proximity deduplicator that compares each apartment with the one before it
\* in the input instead of with the apartments already kept
deduplicateApartmentsByProximity_vsPrevious(apartments) ==
    deduplicateApartmentsByProximity_prev(apartments, <<>>, <<>>)

\* the 100 m proximity deduplicator (deduplicateApartments of the Overpass revision)
deduplicateApartmentsByProximity(apartments) ==
    deduplicateApartmentsByProximity_loop(apartments, <<>>)

-----------------------------------------------------------------------------
(* Residential classifier.  A string is the sequence of its characters. *)

UpperCase == <<"A","B","C","D","E","F","G","H","I","J","K","L","M",
               "N","O","P","Q","R","S","T","U","V","W","X","Y","Z">>
LowerCase == <<"a","b","c","d","e","f","g","h","i","j","k","l","m",
               "n","o","p","q","r","s","t","u","v","w","x","y","z">>

\* String.prototype.toLowerCase
toLowerCase(text) ==
    [i \in 1..Len(text) |->
        IF \E k \in 1..Len(UpperCase) : UpperCase[k] = text[i]
        THEN LowerCase[CHOOSE k \in 1..Len(UpperCase) : UpperCase[k] = text[i]]
        ELSE text[i]]

\* String.prototype.includes
includes(text, keyword) ==
    \E start \in 1..(Len(text) - Len(keyword) + 1) :
        SubSeq(text, start, start + Len(keyword) - 1) = keyword

\* a || b on strings: the empty (or missing) string is falsy
OrElse(a, b) == IF a # <<>> THEN a ELSE b

\* const residentialKeywords
residentialKeywords ==
    << <<"a", "p", "a", "r", "t", "m", "e", "n", "t">>,
       <<"c", "o", "n", "d", "o">>,
       <<"r", "e", "s", "i", "d", "e", "n", "c", "e">>,
       <<"c", "o", "m", "p", "l", "e", "x">>,
       <<"t", "o", "w", "e", "r", "s">>,
       <<"v", "i", "l", "l", "a", "g", "e">>,
       <<"l", "o", "f", "t">>,
       <<"h", "o", "u", "s", "i", "n", "g">>,
       <<"h", "o", "m", "e", "s">>,
       <<"l", "i", "v", "i", "n", "g">>,
       <<"m", "a", "n", "o", "r">>,
       <<"c", "o", "u", "r", "t">>,
       <<"p", "l", "a", "z", "a">>,
       <<"p", "l", "a", "c", "e">> >>

\* const excludeKeywords
excludeKeywords ==
    << <<"h", "o", "t", "e", "l">>,
       <<"m", "o", "t", "e", "l">>,
       <<"h", "o", "s", "p", "i", "t", "a", "l">>,
       <<"s", "c", "h", "o", "o", "l">>,
       <<"r", "e", "s", "t", "a", "u", "r", "a", "n", "t">>,
       <<"o", "f", "f", "i", "c", "e">> >>

\* const hotelKeywords (isHotelType)
hotelKeywords ==
    << <<"h", "o", "t", "e", "l">>,
       <<"m", "o", "t", "e", "l">>,
       <<"i", "n", "n">>,
       <<"l", "o", "d", "g", "e">>,
       <<"r", "e", "s", "o", "r", "t">>,
       <<"s", "u", "i", "t", "e", "s">> >>

isHotelType(place) ==
    LET name == toLowerCase(OrElse(place.name, <<>>))
    IN  \E k \in 1..Len(hotelKeywords) : includes(name, hotelKeywords[k])

\* a classifier in which a residential keyword outweighs an exclusion keyword
isResidentialPlace_inclusionWins(place) ==
    LET name == toLowerCase(OrElse(place.name, <<>>))
        address == toLowerCase(OrElse(place.vicinity, OrElse(place.formatted_address, <<>>)))
        hasResidential == \E k \in 1..Len(residentialKeywords) :
            includes(name, residentialKeywords[k]) \/ includes(address, residentialKeywords[k])
        hasExclusion == \E k \in 1..Len(excludeKeywords) :
            includes(name, excludeKeywords[k]) \/ includes(address, excludeKeywords[k])
    IN  hasResidential \/ ~hasExclusion

isResidentialPlace(place) ==
    LET name == toLowerCase(OrElse(place.name, <<>>))
        address == toLowerCase(OrElse(place.vicinity, OrElse(place.formatted_address, <<>>)))
        hasResidential == \E k \in 1..Len(residentialKeywords) :
            includes(name, residentialKeywords[k]) \/ includes(address, residentialKeywords[k])
        hasExclusion == \E k \in 1..Len(excludeKeywords) :
            includes(name, excludeKeywords[k]) \/ includes(address, excludeKeywords[k])
    IN  hasResidential /\ ~hasExclusion

-----------------------------------------------------------------------------
(* Polyline codec (lib/maps.ts).  An encoded string is the sequence of its
   character codes.  The bit operations act on values below 2^30 in magnitude
   (a difference of two longitudes is at most 36,000,000), where the 32-bit
   shifts cannot overflow, so they are written with integer arithmetic. *)

\* Math.round(coord * 1e5) of a coordinate in micro-degrees (a tie goes up)
RoundE5(microDeg) == (microDeg + 5) \div 10

RECURSIVE encodeValue_chunks(_)
\* while (value >= 0x20) {emit (0x20 | (value & 0x1f)) + 63; value >>= 5}; emit value + 63
encodeValue_chunks(value) ==
    IF value >= 32
    THEN <<(32 + (value % 32)) + 63>> \o encodeValue_chunks(value \div 32)
    ELSE <<value + 63>>

\* value < 0 ? ~(value << 1) : value << 1, then the 5-bit chunks
encodeValue(value) ==
    encodeValue_chunks(IF value < 0 THEN -(2 * value) - 1 ELSE 2 * value)

RECURSIVE encodePolyline_loop(_, _, _)
encodePolyline_loop(coordinates, lat, lng) ==
    IF coordinates = <<>> THEN <<>>
    ELSE LET coord == Head(coordinates)
             latE5 == RoundE5(coord.lat)
             lngE5 == RoundE5(coord.lng)
             dLat == latE5 - lat
             dLng == lngE5 - lng
         IN  encodeValue(dLat) \o encodeValue(dLng)
                 \o encodePolyline_loop(Tail(coordinates), latE5, lngE5)

RECURSIVE encodePolyline_absolute(_)
\* an encoder that never updates the previous point: every point a delta from 0
encodePolyline_absolute(coordinates) ==
    IF coordinates = <<>> THEN <<>>
    ELSE LET coord == Head(coordinates)
         IN  encodeValue(RoundE5(coord.lat)) \o encodeValue(RoundE5(coord.lng))
                 \o encodePolyline_absolute(Tail(coordinates))

encodePolyline(coordinates) == encodePolyline_loop(coordinates, 0, 0)

RECURSIVE decodeValue(_, _, _, _)
\* do {b = charCodeAt(index++) - 63; result |= (b & 0x1f) << shift; shift += 5}
\* while (b >= 0x20); a missing character reads as NaN, which adds nothing and
\* ends the loop.  Returns the result and the next index.
decodeValue(encoded, index, shift, result) ==
    IF index > Len(encoded) THEN [result |-> result, index |-> index + 1]
    ELSE LET b == encoded[index] - 63
             r == result + (b % 32) * (2 ^ shift)
         IN  IF b >= 32 THEN decodeValue(encoded, index + 1, shift + 5, r)
             ELSE [result |-> r, index |-> index + 1]

\* result & 1 ? ~(result >> 1) : result >> 1
UnZigZag(result) == IF result % 2 = 1 THEN -(result \div 2) - 1 ELSE result \div 2

RECURSIVE decodePolyline_loop(_, _, _, _)
decodePolyline_loop(encoded, index, lat, lng) ==
    IF index > Len(encoded) THEN <<>>
    ELSE LET a == decodeValue(encoded, index, 0, 0)
             lat2 == lat + UnZigZag(a.result)
             b == decodeValue(encoded, a.index, 0, 0)
             lng2 == lng + UnZigZag(b.result)
         IN  <<[lat |-> lat2 * 10, lng |-> lng2 * 10]>>      \* lat / 1e5 degrees
                 \o decodePolyline_loop(encoded, b.index, lat2, lng2)

decodePolyline(encoded) == decodePolyline_loop(encoded, 1, 0, 0)

-----------------------------------------------------------------------------
(* Search configuration and route sampling *)

MAX_CONCURRENT_REQUESTS == 7
MAX_SAR_CALLS_PER_HOUR == 200

\* getSearchConfig: metres, except routeFilter, which is km in units of 10 m
\* (2.0, 3.5 and 5.0 km); maxPoints is Infinity in every case and never read
getSearchConfig(maxDistance) ==
    IF maxDistance = "le1mi" THEN
        [sampleInterval |-> 3, distanceInterval |-> 300, pointSpacing |-> 150,
         searchRadius |-> 2500, routeFilter |-> 200,
         keywords |-> <<"apartment", "apartment complex">>]
    ELSE IF maxDistance = "le3mi" THEN
        [sampleInterval |-> 2, distanceInterval |-> 200, pointSpacing |-> 100,
         searchRadius |-> 3500, routeFilter |-> 500,
         keywords |-> <<"apartment", "apartment complex", "condo", "housing", "loft", "homes",
                        "living", "manor", "court", "plaza", "place", "residence">>]
    ELSE \* "le2mi", and the default case
        [sampleInterval |-> 2, distanceInterval |-> 250, pointSpacing |-> 125,
         searchRadius |-> 3000, routeFilter |-> 350,
         keywords |-> <<"apartment", "apartment complex", "condo", "housing">>]

RECURSIVE sampleRoutePoints_loop(_, _, _)
sampleRoutePoints_loop(polyline, interval, i) ==
    IF i > Len(polyline) THEN <<>>
    ELSE <<polyline[i]>> \o sampleRoutePoints_loop(polyline, interval, i + interval)

\* every interval-th vertex from the first, then the last vertex (again)
sampleRoutePoints(polyline, interval) ==
    sampleRoutePoints_loop(polyline, interval, 1)
        \o (IF Len(polyline) > 0 THEN <<polyline[Len(polyline)]>> ELSE <<>>)

RECURSIVE sampleRouteByDistance_loop(_, _, _, _, _, _)
\* the indices of the sampled vertices
sampleRouteByDistance_loop(polyline, distanceMeters, i, accumulatedDistance, nextSampleDistance, samples) ==
    IF i > Len(polyline) THEN samples
    ELSE LET acc == accumulatedDistance + distance(polyline[i - 1], polyline[i])
         IN  IF acc >= nextSampleDistance
             THEN sampleRouteByDistance_loop(polyline, distanceMeters, i + 1, acc,
                                             nextSampleDistance + distanceMeters, Append(samples, i))
             ELSE sampleRouteByDistance_loop(polyline, distanceMeters, i + 1, acc,
                                             nextSampleDistance, samples)

\* the last sample !== lastPoint compares objects: vertex indices here
sampleRouteByDistance(polyline, distanceMeters) ==
    IF Len(polyline) < 2 THEN polyline
    ELSE LET samples == sampleRouteByDistance_loop(polyline, distanceMeters, 2, 0,
                                                   distanceMeters, <<1>>)
             withLast == IF samples[Len(samples)] # Len(polyline)
                         THEN Append(samples, Len(polyline)) ELSE samples
         IN  [k \in 1..Len(withLast) |-> polyline[withLast[k]]]

RECURSIVE deduplicatePoints_vsLast_loop(_, _, _, _)
deduplicatePoints_vsLast_loop(points, minDistanceMeters, i, uniquePoints) ==
    IF i > Len(points) THEN uniquePoints
    ELSE LET isTooClose == distance(points[i], uniquePoints[Len(uniquePoints)])
                               < minDistanceMeters
         IN  deduplicatePoints_vsLast_loop(points, minDistanceMeters, i + 1,
                 IF isTooClose THEN uniquePoints ELSE Append(uniquePoints, points[i]))

\* deduplicatePoints that compares a point with the last accepted point only
deduplicatePoints_vsLast(points, minDistanceMeters) ==
    IF Len(points) <= 1 THEN points
    ELSE deduplicatePoints_vsLast_loop(points, minDistanceMeters, 2, <<points[1]>>)

RECURSIVE deduplicatePoints_loop(_, _, _, _)
deduplicatePoints_loop(points, minDistanceMeters, i, uniquePoints) ==
    IF i > Len(points) THEN uniquePoints
    ELSE LET isTooClose == \E k \in 1..Len(uniquePoints) :
                               distance(points[i], uniquePoints[k]) < minDistanceMeters
         IN  deduplicatePoints_loop(points, minDistanceMeters, i + 1,
                 IF isTooClose THEN uniquePoints ELSE Append(uniquePoints, points[i]))

deduplicatePoints(points, minDistanceMeters) ==
    IF Len(points) <= 1 THEN points
    ELSE deduplicatePoints_loop(points, minDistanceMeters, 2, <<points[1]>>)

\* exponentialBackoff: Math.min(1000 * 2^attempt, 10000) ms, before the jitter
\* of less than 1000 ms
exponentialBackoff(attempt) == Min(1000 * (2 ^ attempt), 10000)

-----------------------------------------------------------------------------
(* The providers: what the directions and the places service know *)

LatLng(lat, lng) == [lat |-> lat, lng |-> lng]

\* two routes along the meridian 0 from the origin: 90 m and 1 km long
PolylineShort == encodePolyline(<<LatLng(0, 0), LatLng(810, 0)>>)
PolylineLong == encodePolyline(<<LatLng(0, 0), LatLng(9000, 0)>>)

\* data.routes of the directions response for an origin/destination pair;
\* "nowhere" answers OK without a route, "broken" with a route without polyline
Directions(od) ==
    IF od = "home-work" THEN <<PolylineShort, PolylineLong>>
    ELSE IF od = "home-gym" THEN <<PolylineLong>>
    ELSE IF od = "broken" THEN << <<>> >>
    ELSE <<>>

RawPlace(id, name, vicinity, lat, lng) ==
    [place_id |-> id, name |-> name, vicinity |-> vicinity, formatted_address |-> <<>>,
     lat |-> lat, lng |-> lng]

\* places abeam of the origin, east of the route: 1.60 km (0.994 mi), 1.61 km
\* (1.0004 mi), 3.22 km (2.0008 mi), 4.83 km (3.0012 mi) and 5.01 km away
PlaceA == RawPlace("A", <<"L", "o", "f", "t">>, <<>>, 0, 14400)
PlaceA2 == RawPlace("A2", <<"P", "L", "A", "Z", "A">>, <<>>, 3, 14403)
PlaceB == RawPlace("B", <<>>, <<"v", "i", "l", "l", "a", "g", "e">>, 0, 14490)
PlaceC == RawPlace("C", <<"c", "o", "u", "r", "t">>, <<>>, 0, 28980)
PlaceD == RawPlace("D", <<"h", "o", "m", "e", "s">>, <<>>, 0, 43470)
PlaceE == RawPlace("E", <<"v", "i", "l", "l", "a", "g", "e">>, <<>>, 0, 45090)
PlaceH == RawPlace("H", <<"L", "o", "f", "t", " ", "H", "o", "t", "e", "l">>, <<>>, 0, 900)
PlaceS == RawPlace("S", <<"L", "o", "f", "t", " ", "S", "u", "i", "t", "e", "s">>, <<>>, 0, 1800)

\* data.results of a nearbysearch of the places service
PlacesResults(lat, lng, query) ==
    IF lat = 0 /\ lng = 0 THEN
        IF query = "apartment" THEN <<PlaceA, PlaceH, PlaceB>>
        ELSE IF query = "apartment complex" THEN <<PlaceA2, PlaceC>>
        ELSE IF query = "lodging" THEN <<PlaceS, PlaceD, PlaceE>>
        ELSE <<>>
    ELSE IF lat = 9000 /\ lng = 0 /\ query = "apartment" THEN <<PlaceB, PlaceD>>
    ELSE <<>>

-----------------------------------------------------------------------------
(* One keyword or type query: performSingleSearch and performTypeSearch *)

\* what a fetch of the places service can come to: the promise rejects, the
\* HTTP status is 429 or another error status, or the body arrives with a status
\* field; "OK" stands for OK or ZERO_RESULTS, as PlacesResults has it
PlacesOutcomes ==
    {"network_error", "http_429", "http_error", "OVER_QUERY_LIMIT", "REQUEST_DENIED", "OK"}

\* the mapping of a provider place to a LightApartment
LightApartment(place) ==
    [place_id |-> place.place_id,
     name |-> OrElse(place.name, <<"U", "n", "k", "n", "o", "w", "n">>),
     lat |-> place.lat, lng |-> place.lng,
     geohash |-> encodeGeohash(place.lat, place.lng, GEOHASH_PRECISION)]

\* data.results.filter(...).map(...) once the filter is applied
LightApartments(places) == [i \in 1..Len(places) |-> LightApartment(places[i])]

\* the try block of performSingleSearch after its fetch came to `outcome`:
\* "retry" (after exponentialBackoff), "throw" or "return" a list
performSingleSearch_try(lat, lng, keyword, retryCount, outcome) ==
    IF outcome = "network_error" THEN [status |-> "throw", value |-> <<>>]
    ELSE IF outcome = "http_429" /\ retryCount < 3 THEN [status |-> "retry", value |-> <<>>]
    ELSE IF outcome \in {"http_429", "http_error"} THEN [status |-> "throw", value |-> <<>>]
    ELSE IF outcome = "OVER_QUERY_LIMIT" /\ retryCount < 3 THEN [status |-> "retry", value |-> <<>>]
    ELSE IF outcome # "OK" THEN [status |-> "throw", value |-> <<>>]
    ELSE [status |-> "return",
          value |-> LightApartments(
                        SelectSeq(PlacesResults(lat, lng, keyword), isResidentialPlace))]

performSingleSearch_fifthAttempt(lat, lng, keyword, retryCount, outcome) ==
    LET attempt == performSingleSearch_try(lat, lng, keyword, retryCount, outcome)
    IN  IF outcome \in {"http_429", "OVER_QUERY_LIMIT"} /\ retryCount < 4
        THEN [status |-> "retry", value |-> <<>>]
        ELSE IF attempt.status = "throw" THEN [status |-> "return", value |-> <<>>]
        ELSE attempt

\* the catch block turns every throw into an empty list
performSingleSearch(lat, lng, keyword, retryCount, outcome) ==
    LET attempt == performSingleSearch_try(lat, lng, keyword, retryCount, outcome)
    IN  IF attempt.status = "throw" THEN [status |-> "return", value |-> <<>>] ELSE attempt

\* performTypeSearch retries on HTTP 429 only
performTypeSearch_try(lat, lng, type, retryCount, outcome) ==
    IF outcome = "network_error" THEN [status |-> "throw", value |-> <<>>]
    ELSE IF outcome = "http_429" /\ retryCount < 3 THEN [status |-> "retry", value |-> <<>>]
    ELSE IF outcome \in {"http_429", "http_error"} THEN [status |-> "throw", value |-> <<>>]
    ELSE IF outcome # "OK" THEN [status |-> "throw", value |-> <<>>]
    ELSE [status |-> "return",
          value |-> LightApartments(
                        SelectSeq(PlacesResults(lat, lng, type),
                                  LAMBDA place : isResidentialPlace(place) /\ ~isHotelType(place)))]

performTypeSearch(lat, lng, type, retryCount, outcome) ==
    LET attempt == performTypeSearch_try(lat, lng, type, retryCount, outcome)
    IN  IF attempt.status = "throw" THEN [status |-> "return", value |-> <<>>] ELSE attempt

-----------------------------------------------------------------------------
(* Distances to the route and the buckets of a result *)

\* one ApartmentListing: distanceToRoute in 1e-8 mile
ApartmentListing(apartment, routeLine) ==
    LET distanceKm == nearestPointOnLine(routeLine, apartment)
        distanceMiles == kmToMiles(distanceKm)
    IN  [place |-> [place_id |-> apartment.place_id, name |-> apartment.name,
                    lat |-> apartment.lat, lng |-> apartment.lng],
         distanceToRoute |-> distanceMiles,
         bucket |-> getBucketFromDistance(distanceMiles)]

\* defined for a route line of at least two vertices (lineString throws otherwise)
processApartmentDistancesLight(apartments, points) ==
    LET routeLine == decodePolyline(points)
    IN  [i \in 1..Len(apartments) |-> ApartmentListing(apartments[i], routeLine)]

RECURSIVE InsertSorted(_, _)
\* Array.prototype.sort is stable: a listing goes behind those at its distance
InsertSorted(sorted, listing) ==
    IF sorted = <<>> THEN <<listing>>
    ELSE IF sorted[Len(sorted)].distanceToRoute <= listing.distanceToRoute
         THEN Append(sorted, listing)
         ELSE Append(InsertSorted(SubSeq(sorted, 1, Len(sorted) - 1), listing), sorted[Len(sorted)])

RECURSIVE SortByDistance(_)
SortByDistance(bucket) ==
    IF bucket = <<>> THEN <<>>
    ELSE InsertSorted(SortByDistance(SubSeq(bucket, 1, Len(bucket) - 1)), bucket[Len(bucket)])

BucketMiles(b) == IF b = "le1mi" THEN 1 ELSE IF b = "le2mi" THEN 2 ELSE 3

groupApartmentsByDistance_cumulative(apartments) ==
    [b \in DistanceBucket |->
        SortByDistance(SelectSeq(apartments,
            LAMBDA apartment : apartment.distanceToRoute <= BucketMiles(b) * MilesScale))]

groupApartmentsByDistance_noCutoff(apartments) ==
    [b \in DistanceBucket |->
        SortByDistance(SelectSeq(apartments, LAMBDA apartment : apartment.bucket = b))]

groupApartmentsByDistance(apartments) ==
    [b \in DistanceBucket |->
        SortByDistance(SelectSeq(apartments,
            LAMBDA apartment : apartment.distanceToRoute <= 3 * MilesScale /\ apartment.bucket = b))]

-----------------------------------------------------------------------------
(* The requests: getRouteAndApartments from its call to its return *)

QuotaWindow == 1                \* 60 * 60 * 1000 ms, the unit of `now`

NoQuery == [kind |-> "none", attempts |-> 0, outcome |-> "none", status |-> "none", found |-> 0]

\* a caller that has no request under way; pc is the await the request stands at:
\* "directions" (the fetch of computeRoutes), "fetch" (the fetch of a query),
\* "backoff" (the timer of exponentialBackoff), or how it ended
IdleCall ==
    [pc |-> "idle", od |-> "", selectedRouteIndex |-> 0, maxDistance |-> "",
     routes |-> <<>>, path |-> "", searchPoints |-> <<>>, p |-> 0, q |-> 0,
     retryCount |-> 0, delay |-> 0, fetches |-> 0, apartments |-> <<>>,
     allApartments |-> <<>>, lastQuery |-> NoQuery, result |-> <<>>, error |-> "",
     \* what the request has done, for the properties (not in the source): when
     \* it was called, the fetches it sent to the directions and to the places
     \* service, whether a places fetch was answered with results, whether a
     \* cache entry was served to it, the age of the oldest entry served, and
     \* whether it repeats the call before it
     start |-> 0, directionsFetches |-> 0, placesFetches |-> 0, placesOk |-> FALSE,
     fromCache |-> FALSE, servedAge |-> 0, repeats |-> FALSE]

\* the RouteOption at an index of routeResult.routes
selectedRoute(c) == c.routes[c.selectedRouteIndex + 1]

\* generateCacheKey("nearby", lat.toFixed(4), lng.toFixed(4))
nearbyKey(searchPoint) == <<toFixed(searchPoint.lat, 4), toFixed(searchPoint.lng, 4)>>

\* the queries of one search point: the keywords, then the type "lodging"
Queries(c) == Append(getSearchConfig(c.maxDistance).keywords, "lodging")

\* the search points of adaptiveSampler
SearchPoints(routePoints, maxDistance) ==
    LET searchConfig == getSearchConfig(maxDistance)
        intervalPoints == sampleRoutePoints(routePoints, searchConfig.sampleInterval)
        distancePoints == sampleRouteByDistance(routePoints, searchConfig.distanceInterval)
    IN  deduplicatePoints(intervalPoints \o distancePoints, searchConfig.pointSpacing)

RECURSIVE addUnseen(_, _)
\* adaptiveSampler's merge: an apartment enters unless its geohash was seen
addUnseen(allApartments, apartments) ==
    IF apartments = <<>> THEN allApartments
    ELSE addUnseen(
            IF \E k \in 1..Len(allApartments) : allApartments[k].geohash = apartments[1].geohash
            THEN allApartments ELSE Append(allApartments, apartments[1]),
            Tail(apartments))

\* adaptiveSampler's loop body after searchNearPointConcurrent returned
MergePoint(c, apartments) ==
    LET routeLine == decodePolyline(selectedRoute(c))
        routeFilter == getSearchConfig(c.maxDistance).routeFilter
        routeFilteredApartments ==
            SelectSeq(apartments,
                      LAMBDA apartment : nearestPointOnLine(routeLine, apartment) <= routeFilter)
    IN  [c EXCEPT !.allApartments = addUnseen(@, routeFilteredApartments), !.p = @ + 1]

CacheTTL == 10                  \* minutes: the ttl of LRUCacheManager's sarCache and nearbySearchCache
WindowMinutes == 60             \* minutes in a unit of `now`

\* an age, in units of `now`, is beyond the ttl
Expired(age) == age * WindowMinutes > CacheTTL

\* the call made now repeats the call the client made before it, which returned
\* a route within the ttl
Repeats(previous, od, selectedRouteIndex, maxDistance) ==
    /\ previous.pc = "returned"
    /\ previous.result[1].selectedRoute # 0
    /\ previous.od = od
    /\ previous.selectedRouteIndex = selectedRouteIndex
    /\ previous.maxDistance = maxDistance
    /\ ~Expired(now - previous.start)

\* a request is served the cache entry of a key: the age of the entry is noted
Served(c, setAt) ==
    [c EXCEPT !.fromCache = TRUE, !.servedAge = Max(@, now - setAt)]

RECURSIVE RunSampler(_, _)
\* adaptiveSampler's loop up to its next fetch: a search point found in the
\* nearby cache is merged at once; "collected" when the points are through
RunSampler(c, sys) ==
    IF c.p > Len(c.searchPoints) THEN [c EXCEPT !.pc = "collected"]
    ELSE IF nearbyKey(c.searchPoints[c.p]) \in DOMAIN sys.cache.nearby
         THEN RunSampler(
                  MergePoint(Served(c, sys.insertedAt.nearby[nearbyKey(c.searchPoints[c.p])]),
                             sys.cache.nearby[nearbyKey(c.searchPoints[c.p])]),
                  sys)
         ELSE [c EXCEPT !.pc = "fetch", !.q = 1, !.retryCount = 0, !.fetches = 1,
                        !.apartments = <<>>, !.placesFetches = @ + 1]

\* the return of getRouteAndApartments, from the light apartments on
SearchResult(c, lightApartments) ==
    LET apartmentListings == processApartmentDistancesLight(lightApartments, selectedRoute(c))
    IN  [routeOptions |-> c.routes,
         selectedRoute |-> c.selectedRouteIndex + 1,
         apartments |-> groupApartmentsByDistance(apartmentListings),
         listings |-> apartmentListings,
         totalFound |-> Len(apartmentListings)]

Returned(c, lightApartments) ==
    [c EXCEPT !.pc = "returned", !.result = <<SearchResult(c, lightApartments)>>]

\* the state of the process
Sys ==
    [cache |-> simpleCache, calls |-> sarCallsThisHour, reset |-> sarQuotaResetTime,
     insertedAt |-> insertedAt]

\* what follows the sampler's loop: searchApartmentsPerformant counts a search
\* of the primary path, stores the apartments, and the request returns
Continue(c, sys) ==
    IF c.pc # "collected" THEN [c |-> c, sys |-> sys]
    ELSE [c |-> Returned(c, c.allApartments),
          sys |-> [sys EXCEPT
                     !.calls = IF c.path = "sar" THEN @ + 1 ELSE @,
                     !.cache.sar = (selectedRoute(c) :> c.allApartments) @@ @,
                     !.insertedAt.sar = (selectedRoute(c) :> now) @@ @]]

\* searchApartmentsPerformant that refuses a search once the quota is used up
searchApartmentsPerformant_throwsOnQuota(c, sys) ==
    LET points == selectedRoute(c)
    IN  IF points \in DOMAIN sys.cache.sar
        THEN [c |-> Returned(Served(c, sys.insertedAt.sar[points]), sys.cache.sar[points]),
              sys |-> sys]
        ELSE LET expired == now > sys.reset
                 sys2 == IF expired
                         THEN [sys EXCEPT !.calls = 0, !.reset = now + QuotaWindow]
                         ELSE sys
                 routePoints == decodePolyline(points)
                 c2 == [c EXCEPT !.path = "sar",
                                 !.searchPoints = SearchPoints(routePoints, c.maxDistance),
                                 !.p = 1]
             IN  IF sys2.calls >= MAX_SAR_CALLS_PER_HOUR
                 THEN [c |-> [c EXCEPT !.pc = "rejected", !.path = "fallback",
                                       !.error = "quota"],
                       sys |-> sys2]
                 ELSE IF Len(routePoints) < 2
                 THEN [c |-> [c EXCEPT !.pc = "rejected", !.error = "lineString"], sys |-> sys2]
                 ELSE Continue(RunSampler(c2, sys2), sys2)

\* searchApartmentsPerformant up to its first fetch
searchApartmentsPerformant(c, sys) ==
    LET points == selectedRoute(c)
    IN  IF points \in DOMAIN sys.cache.sar
        THEN [c |-> Returned(Served(c, sys.insertedAt.sar[points]), sys.cache.sar[points]),
              sys |-> sys]
        ELSE LET expired == now > sys.reset
                 sys2 == IF expired
                         THEN [sys EXCEPT !.calls = 0, !.reset = now + QuotaWindow]
                         ELSE sys
                 routePoints == decodePolyline(points)
                 c2 == [c EXCEPT
                          !.path = IF sys2.calls < MAX_SAR_CALLS_PER_HOUR THEN "sar" ELSE "fallback",
                          !.searchPoints = SearchPoints(routePoints, c.maxDistance),
                          !.p = 1]
             IN  IF Len(routePoints) < 2
                 THEN \* lineString throws in adaptiveSampler, and again in the catch
                      [c |-> [c EXCEPT !.pc = "rejected", !.error = "lineString"], sys |-> sys2]
                 ELSE Continue(RunSampler(c2, sys2), sys2)

Commit(r, next) ==
    /\ call' = [call EXCEPT ![r] = next.c]
    /\ simpleCache' = next.sys.cache
    /\ sarCallsThisHour' = next.sys.calls
    /\ sarQuotaResetTime' = next.sys.reset
    /\ insertedAt' = next.sys.insertedAt

\* a client calls getRouteAndApartments, which awaits the directions; `input`
\* counts the calls made
Invoke(r, od, selectedRouteIndex, maxDistance) ==
    /\ call[r].pc \in {"idle", "returned", "rejected"}
    /\ call' = [call EXCEPT ![r] = [IdleCall EXCEPT !.pc = "directions", !.od = od,
                                       !.selectedRouteIndex = selectedRouteIndex,
                                       !.maxDistance = maxDistance,
                                       !.start = now, !.directionsFetches = 1,
                                       !.repeats = Repeats(call[r], od, selectedRouteIndex,
                                                           maxDistance)]]
    /\ input' = input + 1
    /\ UNCHANGED <<fn, output, simpleCache, sarCallsThisHour, sarQuotaResetTime, now,
                   insertedAt>>

DirectionsOutcomes == {"network_error", "http_error", "NOT_FOUND", "OK"}

\* computeRoutes and what follows its fetch, up to the next await
AfterDirections(c, sys, outcome) ==
    LET routes == Directions(c.od)
    IN  IF outcome # "OK"
        THEN \* fetch rejects, or computeRoutes throws "Directions API error"
             [c |-> [c EXCEPT !.pc = "rejected", !.error = outcome], sys |-> sys]
        ELSE IF routes = <<>>
        THEN [c |-> [c EXCEPT !.pc = "returned",
                       !.result = <<[routeOptions |-> <<>>, selectedRoute |-> 0,
                                     apartments |-> [b \in DistanceBucket |-> <<>>],
                                     listings |-> <<>>, totalFound |-> 0]>>],
              sys |-> sys]
        ELSE IF c.selectedRouteIndex + 1 > Len(routes)
        THEN \* routes[selectedRouteIndex] is undefined: a TypeError
             [c |-> [c EXCEPT !.pc = "rejected", !.routes = routes, !.error = "TypeError"],
              sys |-> sys]
        ELSE searchApartmentsPerformant([c EXCEPT !.routes = routes], sys)

\* the fetch of computeRoutes settles; the request runs on to its next await
DirectionsResponse(r, outcome) ==
    /\ call[r].pc = "directions"
    /\ \E next \in {AfterDirections(call[r], Sys, outcome)} : Commit(r, next)
    /\ UNCHANGED now
    /\ UNCHANGED harnessVars

\* searchNearPointConcurrent after a query settled with `found`
SettleQuery(c, sys, found, settled) ==
    LET apartments == c.apartments \o found
        c2 == [c EXCEPT !.apartments = apartments, !.lastQuery = settled]
    IN  IF c.q < Len(Queries(c))
        THEN [c |-> [c2 EXCEPT !.q = @ + 1, !.retryCount = 0, !.fetches = 1,
                               !.placesFetches = @ + 1],
              sys |-> sys]
        ELSE LET deduped == deduplicateByGeohash(apartments)
                 nearby == (nearbyKey(c.searchPoints[c.p]) :> deduped) @@ sys.cache.nearby
                 sys2 == [sys EXCEPT
                            !.cache.nearby = nearby,
                            !.insertedAt.nearby = (nearbyKey(c.searchPoints[c.p]) :> now) @@ @]
             IN  Continue(RunSampler(MergePoint(c2, deduped), sys2), sys2)

\* AfterFetch without the catch blocks of performSingleSearch,
\* searchNearPointConcurrent and adaptiveSampler: a failed fetch ends the request
AfterFetch_rethrows(c, sys, outcome) ==
    IF outcome \in {"network_error", "http_error", "REQUEST_DENIED"}
    THEN [c |-> [c EXCEPT !.pc = "rejected", !.error = outcome], sys |-> sys]
    ELSE SettleQuery([c EXCEPT !.placesOk = @ \/ (outcome = "OK")], sys,
                     IF outcome = "OK"
                     THEN LightApartments(SelectSeq(
                              PlacesResults(c.searchPoints[c.p].lat, c.searchPoints[c.p].lng,
                                            Queries(c)[c.q]),
                              isResidentialPlace))
                     ELSE <<>>,
                     c.lastQuery)

\* AfterFetch of a search that does not await the retries of a query: a
\* rate-limited query is left to its backoff and the next query is sent
AfterFetch_nextBeforeRetry(c, sys, outcome) ==
    LET searchPoint == c.searchPoints[c.p]
        kind == IF c.q < Len(Queries(c)) THEN "keyword" ELSE "type"
        attempt == IF kind = "keyword"
                   THEN performSingleSearch(searchPoint.lat, searchPoint.lng, Queries(c)[c.q],
                                            c.retryCount, outcome)
                   ELSE performTypeSearch(searchPoint.lat, searchPoint.lng, Queries(c)[c.q],
                                          c.retryCount, outcome)
        settled == [kind |-> kind, attempts |-> c.fetches, outcome |-> outcome,
                    status |-> attempt.status, found |-> Len(attempt.value)]
    IN  SettleQuery([c EXCEPT !.placesOk = @ \/ (attempt.status = "return" /\ outcome = "OK")],
                    sys, attempt.value, settled)

\* a query's fetch settled: performSingleSearch or performTypeSearch runs on,
\* and after it searchNearPointConcurrent, up to the next await
AfterFetch(c, sys, outcome) ==
    LET searchPoint == c.searchPoints[c.p]
        query == Queries(c)[c.q]
        kind == IF c.q < Len(Queries(c)) THEN "keyword" ELSE "type"
        attempt == IF kind = "keyword"
                   THEN performSingleSearch(searchPoint.lat, searchPoint.lng, query,
                                            c.retryCount, outcome)
                   ELSE performTypeSearch(searchPoint.lat, searchPoint.lng, query,
                                          c.retryCount, outcome)
        settled == [kind |-> kind, attempts |-> c.fetches, outcome |-> outcome,
                    status |-> attempt.status, found |-> Len(attempt.value)]
    IN  IF attempt.status = "retry"
        THEN [c |-> [c EXCEPT !.pc = "backoff", !.delay = exponentialBackoff(c.retryCount)],
              sys |-> sys]
        ELSE \* a throw is caught by searchNearPointConcurrent: nothing is added
             SettleQuery([c EXCEPT !.placesOk = @ \/ (attempt.status = "return" /\ outcome = "OK")],
                         sys, IF attempt.status = "return" THEN attempt.value ELSE <<>>,
                         settled)

\* the fetch of the query under way settles
PlacesResponse(r, outcome) ==
    /\ call[r].pc = "fetch"
    /\ \E next \in {AfterFetch(call[r], Sys, outcome)} : Commit(r, next)
    /\ UNCHANGED now
    /\ UNCHANGED harnessVars

\* the timer of exponentialBackoff fires: the query is fetched again
BackoffElapsed(r) ==
    /\ call[r].pc = "backoff"
    /\ call' = [call EXCEPT ![r] = [@ EXCEPT !.pc = "fetch", !.retryCount = @ + 1,
                                       !.fetches = @ + 1, !.delay = 0,
                                       !.placesFetches = @ + 1]]
    /\ UNCHANGED <<simpleCache, sarCallsThisHour, sarQuotaResetTime, now, insertedAt>>
    /\ UNCHANGED harnessVars

-----------------------------------------------------------------------------
(* The state of the pipeline when nothing runs *)

SysIdle ==
    /\ simpleCache = [sar |-> <<>>, nearby |-> <<>>]
    /\ sarCallsThisHour = 0
    /\ sarQuotaResetTime = QuotaWindow
    /\ now = 0
    /\ call = <<>>
    /\ insertedAt = [sar |-> <<>>, nearby |-> <<>>]

-----------------------------------------------------------------------------
(* getBucketFromDistance applied to one distance *)

BucketStep == 5                 \* spacing, in 1e-8 mile, of the inputs around a threshold
MaxMilesInput == 5              \* the inputs reach this many miles

BucketInputs ==
    {m * MilesScale + e : m \in 0..MaxMilesInput, e \in (-BucketStep)..BucketStep} \cap Nat

InitBucket ==
    /\ SysIdle
    /\ fn = "getBucketFromDistance"
    /\ input \in BucketInputs
    /\ output = <<>>

CallGetBucketFromDistance ==
    /\ fn = "getBucketFromDistance"
    /\ output = <<>>
    /\ output' = <<getBucketFromDistance(input)>>
    /\ UNCHANGED <<fn, input, sysVars>>

NextBucket == CallGetBucketFromDistance

SpecBucket == InitBucket /\ [][NextBucket]_vars

\* C2: getBucketFromDistance(d) is "<=1mi" when d <= 1, "<=2mi" when 1 < d <= 2 and
\* "<=3mi" for every d > 2; 1.0 and 2.0 fall in the lower bucket, the smallest
\* values above them in the next one.
C2_BucketBoundaries ==
    (fn = "getBucketFromDistance" /\ output # <<>>) =>
        /\ (output[1] = "le1mi") <=> (input <= MilesScale)
        /\ (output[1] = "le2mi") <=> (MilesScale < input /\ input <= 2 * MilesScale)
        /\ (output[1] = "le3mi") <=> (input > 2 * MilesScale)
        /\ (input = MilesScale) => (output[1] = "le1mi")
        /\ (input = MilesScale + 1) => (output[1] = "le2mi")
        /\ (input = 2 * MilesScale) => (output[1] = "le2mi")
        /\ (input = 2 * MilesScale + 1) => (output[1] = "le3mi")
        /\ (input > 3 * MilesScale) => (output[1] = "le3mi")

\* the smallest distance above 2 miles has been classified, into the catch-all bucket
C2_Witness ==
    /\ fn = "getBucketFromDistance"
    /\ output # <<>>
    /\ input = 2 * MilesScale + 1
    /\ output[1] = "le3mi"

-----------------------------------------------------------------------------
(* The deduplicators applied once and twice to a list of candidates *)

MaxDedupeLen == 3               \* longest list of candidates

DedupePlaceIds == {"p1", "p2"}
\* micro-degrees: 4 and 6 round to different 1e-5 cells, 4 and -4 differ in the
\* sign of zero, -540 and 450 are 60 m and 50 m from 0 and 110 m from each other
DedupeLats == {-540, -4, 0, 4, 6, 450}

Candidate(id, lat) ==
    [place_id |-> id, name |-> "Unknown", lat |-> lat, lng |-> 0,
     geohash |-> encodeGeohash(lat, 0, GEOHASH_PRECISION)]

DedupeCandidates == {Candidate(id, lat) : id \in DedupePlaceIds, lat \in DedupeLats}

DedupeFunctions == {"deduplicateByGeohash", "deduplicateApartments", "deduplicateApartmentsByProximity"}

InitDedupe ==
    /\ SysIdle
    /\ fn = "dedupe"
    /\ input \in SeqsUpTo(DedupeCandidates, MaxDedupeLen)
    /\ output = <<>>

\* the argument of the next application: the input, then the previous result
DedupeArg(f) ==
    IF output = <<>> THEN input ELSE output[Len(output)].value

DedupeEnabled(f) ==
    /\ fn = "dedupe"
    /\ Len(output) < 2
    /\ output # <<>> => output[1].f = f

CallDeduplicateByGeohash ==
    /\ DedupeEnabled("deduplicateByGeohash")
    /\ output' = Append(output, [f |-> "deduplicateByGeohash",
                                 value |-> deduplicateByGeohash(DedupeArg("deduplicateByGeohash"))])
    /\ UNCHANGED <<fn, input, sysVars>>

CallDeduplicateApartments ==
    /\ DedupeEnabled("deduplicateApartments")
    /\ output' = Append(output, [f |-> "deduplicateApartments",
                                 value |-> deduplicateApartments(DedupeArg("deduplicateApartments"))])
    /\ UNCHANGED <<fn, input, sysVars>>

CallDeduplicateApartmentsByProximity ==
    /\ DedupeEnabled("deduplicateApartmentsByProximity")
    /\ output' = Append(output, [f |-> "deduplicateApartmentsByProximity",
                                 value |-> deduplicateApartmentsByProximity(
                                               DedupeArg("deduplicateApartmentsByProximity"))])
    /\ UNCHANGED <<fn, input, sysVars>>

NextDedupe ==
    \/ CallDeduplicateByGeohash
    \/ CallDeduplicateApartments
    \/ CallDeduplicateApartmentsByProximity

SpecDedupe == InitDedupe /\ [][NextDedupe]_vars

DedupeKey(f, apt) == IF f = "deduplicateByGeohash" THEN apt.geohash ELSE apt.place_id

\* the positions of the input that hold the first occurrence of their key
FirstOccurrences(f, list) ==
    {i \in 1..Len(list) : \A j \in 1..(i - 1) : DedupeKey(f, list[j]) # DedupeKey(f, list[i])}

\* the j-th smallest member of a set of positions
NthOf(positions, j) ==
    CHOOSE i \in positions : Cardinality({k \in positions : k <= i}) = j

\* C4: deduplicating N candidates that hold K distinct keys (place identifier, or
\* geohash key) returns exactly K candidates: the first occurrence of each key,
\* in the order of the input.
C4_DedupeFirstOccurrence ==
    (fn = "dedupe" /\ output # <<>> /\ output[1].f # "deduplicateApartmentsByProximity") =>
        LET f == output[1].f
            kept == output[1].value
            K == Cardinality({DedupeKey(f, input[i]) : i \in 1..Len(input)})
            first == FirstOccurrences(f, input)
        IN  /\ Len(kept) = K
            /\ \A j \in 1..Len(kept) : kept[j] = input[NthOf(first, j)]

\* three candidates, the third repeating the key of the first under another
\* place identifier, deduplicated by geohash to the first two
C4_Witness ==
    /\ fn = "dedupe"
    /\ Len(output) = 1
    /\ output[1].f = "deduplicateByGeohash"
    /\ Len(input) = 3
    /\ input[1].geohash = input[3].geohash
    /\ input[1].geohash # input[2].geohash
    /\ input[1] # input[3]
    /\ output[1].value = <<input[1], input[2]>>

\* C5: deduplication is idempotent, dedupe(dedupe(X)) = dedupe(X), and the empty
\* list deduplicates to the empty list, for the geohash-keyed (and place-id-keyed)
\* deduplicator and for the 100 m proximity deduplicator.
C5_DedupeIdempotent ==
    (fn = "dedupe" /\ output # <<>>) =>
        /\ (input = <<>>) => (output[1].value = <<>>)
        /\ (Len(output) = 2) => (output[2].value = output[1].value)

\* the proximity deduplicator has run twice on a list from which its first run
\* dropped a candidate that is far from the candidate before it
C5_Witness ==
    /\ fn = "dedupe"
    /\ Len(output) = 2
    /\ output[1].f = "deduplicateApartmentsByProximity"
    /\ Len(input) = 3
    /\ Len(output[1].value) = 2
    /\ distance(input[3], input[2]) >= MIN_DISTANCE_METERS
    /\ distance(input[3], input[1]) < MIN_DISTANCE_METERS

-----------------------------------------------------------------------------
(* isResidentialPlace applied to one raw place *)

MaxNameWords == 2               \* words in a place name

W_Loft == <<"L", "o", "f", "t">>
W_PLAZA == <<"P", "L", "A", "Z", "A">>
W_Hotel == <<"H", "o", "t", "e", "l">>
W_office == <<"o", "f", "f", "i", "c", "e">>
W_Cafe == <<"C", "a", "f", "e">>
W_school == <<"s", "c", "h", "o", "o", "l">>
W_village == <<"v", "i", "l", "l", "a", "g", "e">>
W_Main == <<"M", "a", "i", "n", " ", "S", "t">>
W_motel == <<"m", "o", "t", "e", "l">>
W_homes == <<"h", "o", "m", "e", "s">>

RECURSIVE Concat(_)
\* the words of a name, one after the other
Concat(ws) == IF ws = <<>> THEN <<>> ELSE Head(ws) \o Concat(Tail(ws))

ClassifierNames ==
    {Concat(ws) : ws \in SeqsUpTo({W_Loft, W_PLAZA, W_Hotel, W_office, W_Cafe}, MaxNameWords)}
ClassifierVicinities == {<<>>, W_school, W_village, W_Main}
ClassifierAddresses == {<<>>, W_motel, W_homes}

InitClassifier ==
    /\ SysIdle
    /\ fn = "isResidentialPlace"
    /\ input \in [name : ClassifierNames, vicinity : ClassifierVicinities,
                  formatted_address : ClassifierAddresses]
    /\ output = <<>>

CallIsResidentialPlace ==
    /\ fn = "isResidentialPlace"
    /\ output = <<>>
    /\ output' = <<isResidentialPlace(input)>>
    /\ UNCHANGED <<fn, input, sysVars>>

NextClassifier == CallIsResidentialPlace

SpecClassifier == InitClassifier /\ [][NextClassifier]_vars

\* keyword occurs in text at some position, whatever the case of the text
Occurs(keyword, text) ==
    \E at \in 0..Len(text) :
        /\ at + Len(keyword) <= Len(text)
        /\ \A k \in 1..Len(keyword) : toLowerCase(<<text[at + k]>>) = <<keyword[k]>>

\* the address the classifier reads: the vicinity, or without one the formatted address
ClassifiedAddress(place) ==
    IF Len(place.vicinity) > 0 THEN place.vicinity ELSE place.formatted_address

MatchesAny(keywords, place) ==
    \E kw \in Range(keywords) : Occurs(kw, place.name) \/ Occurs(kw, ClassifiedAddress(place))

\* C6: isResidentialPlace accepts a place if and only if its name or address contains
\* at least one residential keyword and none of the exclusion keywords; a text
\* that matches both is rejected (exclusion wins).
C6_ExclusionWins ==
    (fn = "isResidentialPlace" /\ output # <<>>) =>
        /\ output[1] <=> (MatchesAny(residentialKeywords, input) /\ ~MatchesAny(excludeKeywords, input))
        /\ (MatchesAny(residentialKeywords, input) /\ MatchesAny(excludeKeywords, input))
              => (output[1] = FALSE)

\* a place whose name holds a residential keyword and whose address holds an
\* exclusion keyword has been rejected
C6_Witness ==
    /\ fn = "isResidentialPlace"
    /\ output = <<FALSE>>
    /\ Occurs(<<"l","o","f","t">>, input.name)
    /\ ~MatchesAny(excludeKeywords, [input EXCEPT !.vicinity = <<>>, !.formatted_address = <<>>])
    /\ Occurs(<<"s","c","h","o","o","l">>, input.vicinity)

-----------------------------------------------------------------------------
(* encodePolyline followed by decodePolyline on a list of coordinates *)

MaxPolylineLen == 2             \* longest list of coordinates

\* micro-degrees: the ends of the valid ranges, values that round up and down
\* to the 1e-5 grid, and the first two points of the format's reference polyline
PolylineLats == {-90000000, -5, 5, 38500000, 40700000, 90000000}
PolylineLngs == {-180000000, -120950000, -120200000, 14, 180000000}

InitPolyline ==
    /\ SysIdle
    /\ fn = "polyline"
    /\ input \in SeqsUpTo([lat : PolylineLats, lng : PolylineLngs], MaxPolylineLen)
    /\ output = <<>>

CallEncodePolyline ==
    /\ fn = "polyline"
    /\ output = <<>>
    /\ output' = <<encodePolyline(input)>>
    /\ UNCHANGED <<fn, input, sysVars>>

CallDecodePolyline ==
    /\ fn = "polyline"
    /\ Len(output) = 1
    /\ output' = Append(output, decodePolyline(output[1]))
    /\ UNCHANGED <<fn, input, sysVars>>

NextPolyline == CallEncodePolyline \/ CallDecodePolyline

SpecPolyline == InitPolyline /\ [][NextPolyline]_vars

\* a coordinate of the 1e-5 grid nearest to the original
RoundedTo1e5(decoded, original) ==
    /\ decoded % 10 = 0
    /\ Abs(decoded - original) <= 5

\* C7: for coordinates within the valid ranges, decodePolyline(encodePolyline(points))
\* has the length of points, and each latitude and longitude is the original
\* rounded to 1e-5 degrees.
C7_PolylineRoundTrip ==
    (fn = "polyline" /\ Len(output) = 2) =>
        /\ Len(output[2]) = Len(input)
        /\ \A i \in 1..Len(input) :
              /\ i <= Len(output[2])
              /\ RoundedTo1e5(output[2][i].lat, input[i].lat)
              /\ RoundedTo1e5(output[2][i].lng, input[i].lng)

\* (38.5, -120.2), (40.7, -120.95) has been encoded to "_p~iF~ps|U_ulLnnqC" and
\* decoded back
C7_Witness ==
    /\ fn = "polyline"
    /\ Len(output) = 2
    /\ input = <<[lat |-> 38500000, lng |-> -120200000], [lat |-> 40700000, lng |-> -120950000]>>
    /\ output[1] = <<95, 112, 126, 105, 70, 126, 112, 115, 124, 85, 95, 117, 108, 76, 110, 110, 113, 67>>
    /\ output[2] = input

-----------------------------------------------------------------------------
(* One request on a fresh process, the providers answering in every way *)

OriginDestinations == {"home-work", "broken", "nowhere"}

InitSearch ==
    /\ fn = "getRouteAndApartments"
    /\ input = 0
    /\ output = <<>>
    /\ simpleCache = [sar |-> <<>>, nearby |-> <<>>]
    /\ sarCallsThisHour = 0
    /\ sarQuotaResetTime = QuotaWindow
    /\ now = 0
    /\ call = [r \in {1} |-> IdleCall]
    /\ insertedAt = [sar |-> <<>>, nearby |-> <<>>]

NextSearch ==
    \/ \E r \in DOMAIN call, od \in OriginDestinations, selectedRouteIndex \in {0, 1},
          maxDistance \in DistanceBucket :
           input = 0 /\ Invoke(r, od, selectedRouteIndex, maxDistance)
    \/ \E r \in DOMAIN call, outcome \in DirectionsOutcomes : DirectionsResponse(r, outcome)
    \/ \E r \in DOMAIN call, outcome \in PlacesOutcomes : PlacesResponse(r, outcome)
    \/ \E r \in DOMAIN call : BackoffElapsed(r)

SpecSearch == InitSearch /\ [][NextSearch]_vars

\* one request of the narrowest search, which the places service answers in
\* every way
NextRetry ==
    \/ \E r \in DOMAIN call, selectedRouteIndex \in {0, 1} :
           input = 0 /\ Invoke(r, "home-work", selectedRouteIndex, "le1mi")
    \/ \E r \in DOMAIN call : DirectionsResponse(r, "OK")
    \/ \E r \in DOMAIN call, outcome \in PlacesOutcomes : PlacesResponse(r, outcome)
    \/ \E r \in DOMAIN call : BackoffElapsed(r)

\* The timers fire and the providers answer every call they are sent: weak
\* fairness of BackoffElapsed, DirectionsResponse and PlacesResponse. For the
\* two responses WF_vars(A), which is []<>~ENABLED <<A>>_vars \/ []<><<A>>_vars,
\* is written out with the state predicate that ENABLED <<A>>_vars equals: the
\* request stands at that await.
SpecRetry ==
    /\ InitSearch
    /\ [][NextRetry]_vars
    /\ WF_vars(\E r \in {1} : BackoffElapsed(r))
    /\ \/ []<>(call[1].pc # "directions")
       \/ []<><<DirectionsResponse(1, "OK")>>_vars
    /\ \/ []<>(call[1].pc # "fetch")
       \/ []<><<\E outcome \in PlacesOutcomes : PlacesResponse(1, outcome)>>_vars

RateLimited == {"http_429", "OVER_QUERY_LIMIT"}

C10_QueryBounded(c) ==
    /\ c.fetches <= 4
    /\ c.retryCount <= 3
    /\ c.pc \in {"fetch", "backoff"} => c.fetches = c.retryCount + 1
    /\ c.pc = "backoff" => c.delay >= 1000
    /\ c.lastQuery.attempts <= 4
    /\ c.lastQuery.status \in {"none", "return"}
    /\ c.lastQuery.outcome \in RateLimited => c.lastQuery.found = 0

\* C10: whatever the places service answers, a keyword or type query is
\* fetched at most 4 times (once, and again after each of at most 3 backoff
\* delays), it ends, the request going on to return, and a query that ends on a
\* rate-limit answer resolves to the empty list and does not throw
C10_BoundedRetries ==
    /\ [](\A r \in DOMAIN call : C10_QueryBounded(call[r]))
    /\ \A r \in {1} : (call[r].pc \in {"fetch", "backoff"}) ~> (call[r].pc = "returned")

\* a request has returned whose last query was fetched 4 times, each answer a
\* rate limit, and resolved to nothing
C10_Witness ==
    \E r \in DOMAIN call :
        /\ call[r].pc = "returned"
        /\ call[r].lastQuery.attempts = 4
        /\ call[r].lastQuery.outcome \in RateLimited
        /\ call[r].lastQuery.status = "return"
        /\ call[r].lastQuery.found = 0

-----------------------------------------------------------------------------
(* One client whose requests follow one another in one process; a provider
   call succeeds or fails, and the clock advances between the requests *)

MaxTime == 2                    \* the clock stops after this many quota windows
MaxRequests == 2                \* requests made in one run

\* time passes by one quota window
Tick ==
    /\ now < MaxTime
    /\ \A r \in DOMAIN call : call[r].pc \in {"idle", "returned", "rejected"}
    /\ now' = now + 1
    /\ UNCHANGED <<simpleCache, sarCallsThisHour, sarQuotaResetTime, call, insertedAt>>
    /\ UNCHANGED harnessVars

NextSession ==
    \/ \E r \in DOMAIN call, od \in OriginDestinations, selectedRouteIndex \in {0, 1},
          maxDistance \in DistanceBucket :
           input < MaxRequests /\ Invoke(r, od, selectedRouteIndex, maxDistance)
    \/ \E r \in DOMAIN call, outcome \in {"OK", "NOT_FOUND"} : DirectionsResponse(r, outcome)
    \/ \E r \in DOMAIN call, outcome \in {"OK", "http_error"} : PlacesResponse(r, outcome)
    \/ Tick

SpecSession == InitSearch /\ [][NextSession]_vars

\* the results that requests have returned
ReturnedResults ==
    {call[r].result[1] : r \in {r \in DOMAIN call : call[r].pc = "returned"}}

\* the buckets in which a result holds a listing of a place
BucketsOf(result, place_id) ==
    {b \in DistanceBucket :
        \E i \in 1..Len(result.apartments[b]) : result.apartments[b][i].place.place_id = place_id}

\* how often a result holds a listing of a place
TimesListed(result, place_id) ==
    LET At(b) == {i \in 1..Len(result.apartments[b]) :
                    result.apartments[b][i].place.place_id = place_id}
    IN  Cardinality(At("le1mi")) + Cardinality(At("le2mi")) + Cardinality(At("le3mi"))

\* C1: in every result returned, a listing lies in one bucket only, once, and
\* the bucket is the one of its distance: "le1mi" iff at most 1 mile, "le2mi"
\* iff more than 1 and at most 2 miles, "le3mi" iff more than 2 miles
C1_BucketsPartition ==
    \A result \in ReturnedResults : \A b \in DistanceBucket :
        \A i \in 1..Len(result.apartments[b]) :
            LET listing == result.apartments[b][i]
                d == listing.distanceToRoute
            IN  /\ BucketsOf(result, listing.place.place_id) = {b}
                /\ TimesListed(result, listing.place.place_id) = 1
                /\ listing.bucket = b
                /\ (b = "le1mi") <=> (d <= 1 * MilesScale)
                /\ (b = "le2mi") <=> (1 * MilesScale < d /\ d <= 2 * MilesScale)
                /\ (b = "le3mi") <=> (d > 2 * MilesScale)

\* a result with a listing in each of the three buckets, one of them less than
\* a thousandth of a mile beyond the threshold of 1 mile
C1_Witness ==
    \E result \in ReturnedResults :
        /\ \A b \in DistanceBucket : result.apartments[b] # <<>>
        /\ \E i \in 1..Len(result.apartments["le2mi"]) :
               result.apartments["le2mi"][i].distanceToRoute < 1 * MilesScale + 100000

\* C3: every listing in a bucket of a returned result is at most 3 miles from
\* the route, and a candidate farther away is in no bucket of the result
C3_OuterCutoff ==
    \A result \in ReturnedResults :
        /\ \A b \in DistanceBucket : \A i \in 1..Len(result.apartments[b]) :
               result.apartments[b][i].distanceToRoute <= 3 * MilesScale
        /\ \A k \in 1..Len(result.listings) :
               result.listings[k].distanceToRoute > 3 * MilesScale
                   => BucketsOf(result, result.listings[k].place.place_id) = {}

\* a result whose search found a candidate more than 3 miles from the route,
\* next to listings that it holds
C3_Witness ==
    \E result \in ReturnedResults :
        /\ \E k \in 1..Len(result.listings) :
               result.listings[k].distanceToRoute > 3 * MilesScale
        /\ \E b \in DistanceBucket : result.apartments[b] # <<>>

-----------------------------------------------------------------------------
(* Several clients call into one process at once; the providers answer every
   call, in any order *)

NumCallers == 8                 \* clients of the fan-out runs
NumQuotaCallers == 2            \* clients of the quota runs

\* the await a searchNearPointConcurrent call stands at is a fetch or a backoff
InFlight(r) == call[r].pc \in {"fetch", "backoff"}

InitFanout ==
    /\ fn = "getRouteAndApartments"
    /\ input = 0
    /\ output = <<>>
    /\ simpleCache = [sar |-> <<>>, nearby |-> <<>>]
    /\ sarCallsThisHour = 0
    /\ sarQuotaResetTime = QuotaWindow
    /\ now = 0
    /\ call = [r \in 1..NumCallers |-> IdleCall]
    /\ insertedAt = [sar |-> <<>>, nearby |-> <<>>]

\* how far a request has come: the awaits it has passed
Progress(c) ==
    IF c.pc = "idle" THEN 0
    ELSE IF c.pc = "directions" THEN 1
    ELSE IF c.pc \in {"fetch", "backoff"} THEN 1 + (c.p - 1) * Len(Queries(c)) + c.q
    ELSE 2 + 2 * Len(Queries(c))

\* the clients make the same call, and the providers serve them first come,
\* first served: no client gets ahead of one that called before it
InTurn(r) == IF r = 1 THEN TRUE ELSE Progress(call[r]) < Progress(call[r - 1])

NextFanout ==
    \/ \E r \in DOMAIN call : call[r].pc = "idle" /\ InTurn(r) /\ Invoke(r, "home-work", 0, "le1mi")
    \/ \E r \in DOMAIN call : InTurn(r) /\ DirectionsResponse(r, "OK")
    \/ \E r \in DOMAIN call : InTurn(r) /\ PlacesResponse(r, "OK")

SpecFanout == InitFanout /\ [][NextFanout]_vars

\* C9: no more place searches are under way at once than MAX_CONCURRENT_REQUESTS,
\* also when several requests run in the process
C9_BoundedFanout ==
    Cardinality({r \in DOMAIN call : InFlight(r)}) <= MAX_CONCURRENT_REQUESTS

\* the process has made no search in this quota window, or all but one
InitQuota ==
    /\ fn = "getRouteAndApartments"
    /\ input = 0
    /\ output = <<>>
    /\ simpleCache = [sar |-> <<>>, nearby |-> <<>>]
    /\ sarCallsThisHour \in {0, MAX_SAR_CALLS_PER_HOUR - 1}
    /\ sarQuotaResetTime = QuotaWindow
    /\ now = 0
    /\ call = [r \in 1..NumQuotaCallers |-> IdleCall]
    /\ insertedAt = [sar |-> <<>>, nearby |-> <<>>]

NextQuota ==
    \/ \E r \in DOMAIN call, selectedRouteIndex \in {0, 1} :
           call[r].pc = "idle" /\ Invoke(r, "home-work", selectedRouteIndex, "le1mi")
    \/ \E r \in DOMAIN call : DirectionsResponse(r, "OK")
    \/ \E r \in DOMAIN call : PlacesResponse(r, "OK")

SpecQuota == InitQuota /\ [][NextQuota]_vars

\* C8: within a quota window the counter of primary-path searches never
\* exceeds MAX_SAR_CALLS_PER_HOUR, however the requests interleave
C8_QuotaNeverExceeded == sarCallsThisHour <= MAX_SAR_CALLS_PER_HOUR

-----------------------------------------------------------------------------
(* Failed place searches within a session *)

NoApartments(result) ==
    /\ result.totalFound = 0
    /\ \A b \in DistanceBucket : result.apartments[b] = <<>>

\* a request that sent place searches never rejects
NeverThrowsOnceSearching == \A r \in DOMAIN call : call[r].pc = "rejected" => call[r].placesFetches = 0

\* C11 (amended): once a route is established, failures among the place-search
\* calls never make getRouteAndApartments throw; it returns a SearchResult, and
\* when every place-search call of the request failed and no search point was
\* answered from the cache, the result has totalFound 0 and three empty buckets
C11_PartialFailureTolerant ==
    /\ NeverThrowsOnceSearching
    /\ \A r \in DOMAIN call :
          (/\ call[r].pc = "returned"
           /\ call[r].placesFetches > 0
           /\ ~call[r].placesOk
           /\ ~call[r].fromCache) => NoApartments(call[r].result[1])
    /\ \A r \in DOMAIN call :
          (call[r].pc = "returned" /\ call[r].result[1].totalFound > 0)
              => (call[r].placesOk \/ call[r].fromCache)

\* a request on a fresh process sent six place searches, all of which failed,
\* and returned the empty result
C11_Witness ==
    \E r \in DOMAIN call :
        /\ call[r].pc = "returned"
        /\ call[r].placesFetches = 6
        /\ ~call[r].placesOk
        /\ ~call[r].fromCache
        /\ call[r].result[1].selectedRoute # 0
        /\ NoApartments(call[r].result[1])

\* C11 as stated: when every place-search call of a request failed, the result
\* has totalFound 0 and three empty buckets
C11_AllFailedIsEmpty ==
    /\ NeverThrowsOnceSearching
    /\ \A r \in DOMAIN call :
          (call[r].pc = "returned" /\ call[r].placesFetches > 0 /\ ~call[r].placesOk)
              => NoApartments(call[r].result[1])

-----------------------------------------------------------------------------
(* The cache within a session *)

\* C12: the second of two identical getRouteAndApartments calls within the cache
\* TTL returns without any network call: no directions fetch and no place
\* search
C12_RepeatSkipsNetwork ==
    \A r \in DOMAIN call :
        (call[r].repeats /\ call[r].pc = "returned")
            => (call[r].directionsFetches = 0 /\ call[r].placesFetches = 0)

\* C13: no cache entry is served once its TTL has elapsed since it was set
C13_NeverServedExpired ==
    \A r \in DOMAIN call : call[r].fromCache => ~Expired(call[r].servedAge)

-----------------------------------------------------------------------------
(* Requests whose route cannot be had *)

\* the ways the directions call fails
DirectionsFailures == DirectionsOutcomes \ {"OK"}

\* C14: when the directions provider fails, getRouteAndApartments does not
\* throw (it goes on with a synthetic straight-line route)
C14_DirectionsFailureFallsBack ==
    \A r \in DOMAIN call :
        call[r].error \in DirectionsFailures => call[r].pc # "rejected"

\* C16: a request that fails because an address cannot be resolved (NOT_FOUND)
\* has issued no directions call and no place search
C16_GeocodeFailureBeforeCalls ==
    \A r \in DOMAIN call :
        (call[r].pc = "rejected" /\ call[r].error = "NOT_FOUND")
            => (call[r].directionsFetches = 0 /\ call[r].placesFetches = 0)

\* C17: getRouteAndApartments never returns a SearchResult that has no route:
\* a request for which no route is obtained rejects
C17_NoRouteRejects ==
    \A r \in DOMAIN call :
        call[r].pc = "returned"
            => (call[r].result[1].routeOptions # <<>> /\ call[r].result[1].selectedRoute # 0)

-----------------------------------------------------------------------------
(* computeRoute of lib/maps.ts: both addresses are geocoded, then the route is
   asked of the directions service *)

GeocodeAddresses == {"home", "work", "gym", "qwerty"}

\* response.data of the address provider for an address (limit: 1)
Nominatim(address) ==
    IF address = "home" THEN <<[lat |-> 0, lon |-> 0]>>
    ELSE IF address = "work" THEN <<[lat |-> 810, lon |-> 0]>>
    ELSE IF address = "gym" THEN <<[lat |-> 9000, lon |-> 0]>>
    ELSE <<>>

GeocodeOutcomes == {"network_error", "OK"}

\* geocodeAddress once its request settled: <<>> stands for null, <<c>> for the
\* coordinates c
geocodeAddress(address, outcome) ==
    IF outcome # "OK" THEN <<>>                       \* catch: return null
    ELSE IF Len(Nominatim(address)) = 0 THEN <<>>     \* return null
    ELSE <<[lat |-> Nominatim(address)[1].lat, lng |-> Nominatim(address)[1].lon]>>

\* what the address provider did: its request failed, or it answered with no
\* match, or with one
ProviderAnswer(address, outcome) ==
    IF outcome # "OK" THEN "error"
    ELSE IF Len(Nominatim(address)) = 0 THEN "empty" ELSE "match"

NotGeocoded == [answer |-> "none", value |-> <<>>]

IdleRoute ==
    [pc |-> "idle", origin |-> NotGeocoded, destination |-> NotGeocoded,
     geocodeCalls |-> 0, directionsCalls |-> 0, error |-> "", routes |-> <<>>]

InitGeocode ==
    /\ SysIdle
    /\ fn = "computeRoute"
    /\ input \in [origin : GeocodeAddresses, destination : GeocodeAddresses,
                  OPENROUTE_API_KEY : BOOLEAN]
    /\ output = IdleRoute

\* computeRoute is called: without a key it throws, with one both addresses are
\* sent to the geocoder (Promise.all)
CallComputeRoute ==
    /\ fn = "computeRoute"
    /\ output.pc = "idle"
    /\ output' = IF ~input.OPENROUTE_API_KEY
                 THEN [output EXCEPT !.pc = "rejected",
                                     !.error = "OpenRouteService API key not configured"]
                 ELSE [output EXCEPT !.pc = "geocoding", !.geocodeCalls = 2]
    /\ UNCHANGED <<fn, input, sysVars>>

\* computeRoute once Promise.all resolved
AfterGeocoding(route) ==
    IF route.origin.value = <<>> \/ route.destination.value = <<>>
    THEN [route EXCEPT !.pc = "rejected", !.error = "Failed to geocode addresses"]
    ELSE [route EXCEPT !.pc = "directions", !.directionsCalls = 1]

\* the request of one of the two geocodeAddress calls settles
GeocodeResponse(which, outcome) ==
    /\ fn = "computeRoute"
    /\ output.pc = "geocoding"
    /\ output[which].answer = "none"
    /\ LET geocoded == [answer |-> ProviderAnswer(input[which], outcome),
                        value |-> geocodeAddress(input[which], outcome)]
           route == [output EXCEPT ![which] = geocoded]
       IN  output' = IF route.origin.answer # "none" /\ route.destination.answer # "none"
                     THEN AfterGeocoding(route)
                     ELSE route
    /\ UNCHANGED <<fn, input, sysVars>>

RouteOutcomes == {"network_error", "no_feature", "OK"}

\* the request to the directions service settles
RouteResponse(outcome) ==
    /\ fn = "computeRoute"
    /\ output.pc = "directions"
    /\ output' = IF outcome = "network_error"
                 THEN [output EXCEPT !.pc = "rejected", !.error = "network_error"]
                 ELSE IF outcome = "no_feature"
                 THEN [output EXCEPT !.pc = "rejected", !.error = "No route found"]
                 ELSE [output EXCEPT
                         !.pc = "returned",
                         !.routes = <<encodePolyline(<<output.origin.value[1],
                                                       output.destination.value[1]>>)>>]
    /\ UNCHANGED <<fn, input, sysVars>>

NextGeocode ==
    \/ CallComputeRoute
    \/ \E which \in {"origin", "destination"}, outcome \in GeocodeOutcomes :
           GeocodeResponse(which, outcome)
    \/ \E outcome \in RouteOutcomes : RouteResponse(outcome)

SpecGeocode == InitGeocode /\ [][NextGeocode]_vars

\* C15: the geocoder's value for an address without a match differs from its
\* value when the address provider fails, so that a caller can tell the two
C15_GeocoderDistinguishes ==
    fn = "computeRoute" =>
        \A a, b \in {"origin", "destination"} :
            (output[a].answer = "empty" /\ output[b].answer = "error")
                => output[a].value # output[b].value

-----------------------------------------------------------------------------
(* One client in a process that has used up its searches of the current quota
   window *)

InitExhausted ==
    /\ fn = "getRouteAndApartments"
    /\ input = 0
    /\ output = <<>>
    /\ simpleCache = [sar |-> <<>>, nearby |-> <<>>]
    /\ sarCallsThisHour = MAX_SAR_CALLS_PER_HOUR
    /\ sarQuotaResetTime = QuotaWindow
    /\ now = 0
    /\ call = [r \in {1} |-> IdleCall]
    /\ insertedAt = [sar |-> <<>>, nearby |-> <<>>]

NextExhausted ==
    \/ \E r \in DOMAIN call, selectedRouteIndex \in {0, 1} :
           input < MaxRequests /\ Invoke(r, "home-work", selectedRouteIndex, "le1mi")
    \/ \E r \in DOMAIN call : DirectionsResponse(r, "OK")
    \/ \E r \in DOMAIN call, outcome \in {"OK", "http_error"} : PlacesResponse(r, outcome)
    \/ Tick

SpecExhausted == InitExhausted /\ [][NextExhausted]_vars

\* a request searches on the fallback path exactly when the quota was used up
\* at its cache miss; it never rejects, and what it returns are the candidates
\* its sampler collected
FallbackReturns(c) ==
    /\ c.path = "fallback" => c.pc # "rejected"
    /\ c.error # "quota"
    /\ (c.path = "fallback" /\ c.pc = "returned") =>
          /\ c.result[1].totalFound = Len(c.allApartments)
          /\ \A k \in 1..Len(c.allApartments) :
                c.result[1].listings[k].place.place_id = c.allApartments[k].place_id

\* C18: with sarCallsThisHour >= MAX_SAR_CALLS_PER_HOUR and the reset time not
\* passed, searchApartmentsPerformant does not reject: it returns the candidates
\* collected (by the fallback sampler); and when the reset time has passed, the
\* counter restarts from 0 (it is 0, or 1 once the search that reset it is counted)
C18_QuotaExhaustedStillReturns ==
    /\ [](\A r \in DOMAIN call : FallbackReturns(call[r]))
    /\ [][sarQuotaResetTime' # sarQuotaResetTime =>
            (/\ now > sarQuotaResetTime
             /\ sarQuotaResetTime' = now + QuotaWindow
             /\ sarCallsThisHour' \in {0, 1})]_vars
    /\ [][sarCallsThisHour' > sarCallsThisHour => sarCallsThisHour < MAX_SAR_CALLS_PER_HOUR]_vars

\* with the quota used up and the window not over, a request has searched on
\* the fallback path and returned the apartments it found
C18_Witness ==
    \E r \in DOMAIN call :
        /\ sarCallsThisHour = MAX_SAR_CALLS_PER_HOUR
        /\ now <= sarQuotaResetTime
        /\ call[r].pc = "returned"
        /\ call[r].path = "fallback"
        /\ call[r].placesFetches > 0
        /\ call[r].result[1].totalFound > 0

-----------------------------------------------------------------------------
(* One request whose provider calls need not be answered *)

NextUnanswered ==
    \/ \E r \in DOMAIN call, selectedRouteIndex \in {0, 1} :
           input = 0 /\ Invoke(r, "home-work", selectedRouteIndex, "le1mi")
    \/ \E r \in DOMAIN call, outcome \in {"OK", "network_error"} : DirectionsResponse(r, outcome)
    \/ \E r \in DOMAIN call, outcome \in {"OK", "http_429", "network_error"} :
           PlacesResponse(r, outcome)
    \/ \E r \in DOMAIN call : BackoffElapsed(r)

\* The timers of the process fire (weak fairness of BackoffElapsed). A fetch
\* settles only when its provider answers or the connection fails: the calls
\* carry no timeout and no abort signal, so nothing in the process makes
\* DirectionsResponse or PlacesResponse happen.
SpecUnanswered ==
    /\ InitSearch
    /\ [][NextUnanswered]_vars
    /\ WF_vars(\E r \in {1} : BackoffElapsed(r))

\* C19: every getRouteAndApartments invocation eventually completes (returns or
\* rejects), also when a provider call is never answered
C19_AlwaysCompletes ==
    \A r \in {1} :
        (call[r].pc \in {"directions", "fetch", "backoff"})
            ~> (call[r].pc \in {"returned", "rejected"})

-----------------------------------------------------------------------------
(* One request of any width whose place searches are answered or rate-limited *)

MaxPlacesCallsPerRequest == 70  \* the README's target of Google Places API calls per request

NextCalls ==
    \/ \E r \in DOMAIN call, selectedRouteIndex \in {0, 1}, maxDistance \in DistanceBucket :
           input = 0 /\ Invoke(r, "home-work", selectedRouteIndex, maxDistance)
    \/ \E r \in DOMAIN call : DirectionsResponse(r, "OK")
    \/ \E r \in DOMAIN call, outcome \in {"OK", "http_429"} : PlacesResponse(r, outcome)
    \/ \E r \in DOMAIN call : BackoffElapsed(r)

SpecCalls == InitSearch /\ [][NextCalls]_vars

\* C20: a getRouteAndApartments request sends at most 70 calls to the Places
\* API, retries included
C20_AtMost70PlacesCalls ==
    \A r \in DOMAIN call : call[r].placesFetches <= MaxPlacesCallsPerRequest

-----------------------------------------------------------------------------
(* The distance of one listing, from the kilometres of nearestPointOnLine to
   the badge of its card *)

MaxDistanceKm == 5              \* the inputs reach this many km (the widest route filter)

\* ApartmentCard's formatDistance(meters): meters * 0.000621371, shown as
\* "<0.1 mi" below a tenth and with one decimal otherwise. The argument and
\* `miles` are in units of 1e-8; the product is taken in two parts to stay
\* within 32 bits
formatDistance(meters) ==
    LET miles == ((meters \div 10 ^ 6) * KmToMilesFactor) \div 1000
                 + (((meters % 10 ^ 6) \div 1000) * KmToMilesFactor) \div 10 ^ 6
    IN  IF miles < MilesScale \div 10
        THEN [below |-> TRUE, tenths |-> 0]
        ELSE [below |-> FALSE, tenths |-> (miles + MilesScale \div 20) \div (MilesScale \div 10)]

\* the map callback of processApartmentDistancesLight from distanceKm on
DistanceFields(distanceKm) ==
    [distanceToRoute |-> kmToMiles(distanceKm),
     bucket |-> getBucketFromDistance(kmToMiles(distanceKm))]

InitUnits ==
    /\ SysIdle
    /\ fn = "distanceToRoute"
    /\ input \in 0..(MaxDistanceKm * KmScale)
    /\ output = <<>>

CallProcessApartmentDistances ==
    /\ fn = "distanceToRoute"
    /\ output = <<>>
    /\ output' = <<DistanceFields(input)>>
    /\ UNCHANGED <<fn, input, sysVars>>

\* ApartmentCard renders the listing: {formatDistance(distanceToRoute)}
RenderApartmentCard ==
    /\ fn = "distanceToRoute"
    /\ Len(output) = 1
    /\ output' = Append(output, formatDistance(output[1].distanceToRoute))
    /\ UNCHANGED <<fn, input, sysVars>>

NextUnits == CallProcessApartmentDistances \/ RenderApartmentCard

SpecUnits == InitUnits /\ [][NextUnits]_vars

\* a number of miles (in 1e-8 mile) as a card shows it
MilesShown(miles) ==
    IF miles < MilesScale \div 10
    THEN [below |-> TRUE, tenths |-> 0]
    ELSE [below |-> FALSE, tenths |-> (miles + MilesScale \div 20) \div (MilesScale \div 10)]

\* C21: the kilometres are converted to miles once, with 0.621371, and the
\* stored distanceToRoute, the value that chose the bucket and the distance on
\* the card are the same number of miles
C21_OneConversion ==
    fn = "distanceToRoute" =>
        /\ Len(output) >= 1 =>
              /\ output[1].distanceToRoute = input * KmToMilesFactor
              /\ input = 0 => output[1].distanceToRoute = 0
              /\ output[1].bucket = getBucketFromDistance(output[1].distanceToRoute)
        /\ Len(output) = 2 => output[2] = MilesShown(output[1].distanceToRoute)

-----------------------------------------------------------------------------
(* The distance of one point to one route line *)

MaxLineLen == 3                 \* vertices of the longest route line

GridStep == 10 * MicroDegPerMetre       \* micro-degrees in 10 m

\* a route along the meridian 0 with vertices 0 m, 100 m or 300 m north of the
\* equator, in any order, and points up to 100 m beyond its ends and up to
\* 200 m to its sides
LineLats == {0, 10 * GridStep, 30 * GridStep}
PointLats == {-10 * GridStep, 0, 10 * GridStep, 20 * GridStep, 30 * GridStep, 40 * GridStep}
PointLngs == {-20 * GridStep, 0, 10 * GridStep}

RouteLines ==
    {line \in SeqsUpTo([lat : LineLats, lng : {0}], MaxLineLen) : Len(line) >= 2}

InitRouteDistance ==
    /\ SysIdle
    /\ fn = "processApartmentDistancesLight"
    /\ input \in [line : RouteLines,
                  apartment : [place_id : {"p1"}, name : {"Unknown"}, lat : PointLats,
                               lng : PointLngs]]
    /\ output = <<>>

CallApartmentListing ==
    /\ fn = "processApartmentDistancesLight"
    /\ output = <<>>
    /\ output' = <<ApartmentListing(input.apartment, input.line)>>
    /\ UNCHANGED <<fn, input, sysVars>>

NextRouteDistance == CallApartmentListing

SpecRouteDistance == InitRouteDistance /\ [][NextRouteDistance]_vars

\* the points of the 10 m grid on the segment from a to b
OnSegment(a, b) ==
    {[lat |-> lat, lng |-> a.lng] :
        lat \in {l \in Min(a.lat, b.lat)..Max(a.lat, b.lat) : l % GridStep = 0}}

\* the distance, in units of 10 m, between two points of the grid
GridDistance(p, q) ==
    ISqrt(((p.lat - q.lat) \div GridStep) * ((p.lat - q.lat) \div GridStep)
          + ((p.lng - q.lng) \div GridStep) * ((p.lng - q.lng) \div GridStep))

OnLine(line) == UNION {OnSegment(line[i], line[i + 1]) : i \in 1..(Len(line) - 1)}

-----------------------------------------------------------------------------
(* The order of the queries of one sample point *)

Searching(c) == c.pc \in {"fetch", "backoff"}

\* from one await of a request's search to the next: the query under way stays
\* the same (it is retried), or it has completed and the next query of the
\* point, or the first query of a later point, is sent
NextQueryAfterCompletion(c, d) ==
    \/ d.p = c.p /\ d.q = c.q
    \/ /\ c.pc = "fetch"
       /\ d.pc = "fetch"
       /\ d.fetches = 1
       /\ d.retryCount = 0
       /\ d.lastQuery.status = "return"
       /\ d.lastQuery.attempts = c.fetches
       /\ d.lastQuery.kind = (IF c.q < Len(Queries(c)) THEN "keyword" ELSE "type")
       /\ \/ d.p = c.p /\ d.q = c.q + 1
          \/ d.p > c.p /\ c.q = Len(Queries(c)) /\ d.q = 1

-----------------------------------------------------------------------------
(* deduplicatePoints applied to a list of sample points *)

MaxPointsLen == 4               \* longest list of sample points

\* points of one meridian 0 m, 50 m, 99 m, 100 m, 150 m and 200 m north of the
\* equator; the spacings of getSearchConfig
SamplePointLats ==
    {0, 50 * MicroDegPerMetre, 99 * MicroDegPerMetre, 100 * MicroDegPerMetre,
     150 * MicroDegPerMetre, 200 * MicroDegPerMetre}
PointSpacings == {100, 125, 150}

InitPoints ==
    /\ SysIdle
    /\ fn = "deduplicatePoints"
    /\ input \in [points : SeqsUpTo([lat : SamplePointLats, lng : {0}], MaxPointsLen),
                  minDistanceMeters : PointSpacings]
    /\ output = <<>>

CallDeduplicatePoints ==
    /\ fn = "deduplicatePoints"
    /\ output = <<>>
    /\ output' = <<deduplicatePoints(input.points, input.minDistanceMeters)>>
    /\ UNCHANGED <<fn, input, sysVars>>

NextPoints == CallDeduplicatePoints

SpecPoints == InitPoints /\ [][NextPoints]_vars

\* the positions accepted: a position is accepted exactly when no accepted
\* position before it holds a point closer than minDistance
AcceptedPositions(points, minDistance) ==
    CHOOSE S \in SUBSET (1..Len(points)) :
        \A i \in 1..Len(points) :
            i \in S <=> \A j \in S : j < i => distance(points[i], points[j]) >= minDistance

\* C24: deduplicatePoints keeps the first point, goes through the points in
\* input order, drops a point exactly when an already accepted point is closer
\* than minDistance, and so returns a subsequence of its input whose points
\* are pairwise at least minDistance apart
C24_PointsSpacedSubsequence ==
    (fn = "deduplicatePoints" /\ output # <<>>) =>
        LET points == input.points
            kept == output[1]
            accepted == AcceptedPositions(points, input.minDistanceMeters)
        IN  /\ Len(points) >= 1 => (Len(kept) >= 1 /\ kept[1] = points[1] /\ 1 \in accepted)
            /\ Len(kept) = Cardinality(accepted)
            /\ \A k \in 1..Len(kept) : kept[k] = points[NthOf(accepted, k)]
            /\ \A k, l \in 1..Len(kept) :
                  k # l => distance(kept[k], kept[l]) >= input.minDistanceMeters

\* of the points at 0 m, 100 m, 200 m and 99 m, spaced by 100 m, the last has
\* been dropped for being 99 m from the first one, though it is 101 m from the
\* point accepted before it
C24_Witness ==
    /\ fn = "deduplicatePoints"
    /\ output # <<>>
    /\ input.minDistanceMeters = 100
    /\ Len(input.points) = 4
    /\ input.points[1].lat = 0
    /\ input.points[2].lat = 100 * MicroDegPerMetre
    /\ input.points[3].lat = 200 * MicroDegPerMetre
    /\ input.points[4].lat = 99 * MicroDegPerMetre
    /\ output[1] = SubSeq(input.points, 1, 3)

-----------------------------------------------------------------------------
(* sampleRouteByDistance applied to a polyline *)

MaxSampleLen == 4               \* vertices of the longest polyline sampled

\* vertices of one meridian, at these metres north of the equator
SampleVertexMetres == {0, 150, 200, 450, 460, 470}
DistanceIntervals == {200, 250, 300}

InitSampling ==
    /\ SysIdle
    /\ fn = "sampleRouteByDistance"
    /\ input \in [polyline : SeqsUpTo([lat : {m * MicroDegPerMetre : m \in SampleVertexMetres},
                                        lng : {0}], MaxSampleLen),
                  distanceMeters : DistanceIntervals]
    /\ output = <<>>

CallSampleRouteByDistance ==
    /\ fn = "sampleRouteByDistance"
    /\ output = <<>>
    /\ output' = <<sampleRouteByDistance(input.polyline, input.distanceMeters)>>
    /\ UNCHANGED <<fn, input, sysVars>>

NextSampling == CallSampleRouteByDistance

SpecSampling == InitSampling /\ [][NextSampling]_vars

RECURSIVE PathLength(_, _)
\* the length in metres of the path from the first vertex to vertex i
PathLength(polyline, i) ==
    IF i <= 1 THEN 0 ELSE PathLength(polyline, i - 1) + distance(polyline[i - 1], polyline[i])

\* within the segment that ends at vertex i the path length crosses a
\* multiple of the threshold
CrossesMultiple(polyline, distanceMeters, i) ==
    PathLength(polyline, i) \div distanceMeters > PathLength(polyline, i - 1) \div distanceMeters

\* C25: of a polyline of 2 or more vertices sampleRouteByDistance returns the
\* first vertex, then the interior vertices at which the accumulated length
\* has crossed a new multiple of the threshold, then the final vertex; a
\* shorter polyline is returned unchanged
C25_SamplesAtCrossings ==
    (fn = "sampleRouteByDistance" /\ output # <<>>) =>
        LET polyline == input.polyline
            n == Len(polyline)
            sampled == {1, n} \cup {i \in 2..(n - 1) :
                                       CrossesMultiple(polyline, input.distanceMeters, i)}
        IN  IF n < 2 THEN output[1] = polyline
            ELSE /\ Len(output[1]) = Cardinality(sampled)
                 /\ \A k \in 1..Len(output[1]) :
                       k <= Cardinality(sampled) => output[1][k] = polyline[NthOf(sampled, k)]

-----------------------------------------------------------------------------
(* The counts and the widths of the results of a session *)

RECURSIVE SumOver(_, _)
\* the sum of count[b] over the members b of a set
SumOver(count, set) ==
    IF set = {} THEN 0
    ELSE LET b == CHOOSE x \in set : TRUE IN count[b] + SumOver(count, set \ {b})

\* C26: in every SearchResult returned, totalFound is the number of listings
\* in the three buckets of that result
C26_TotalFoundCountsBuckets ==
    \A r \in DOMAIN call :
        call[r].pc = "returned" =>
            call[r].result[1].totalFound
                = SumOver([b \in DistanceBucket |-> Len(call[r].result[1].apartments[b])],
                          DistanceBucket)

-----------------------------------------------------------------------------
(* Two requests of any width, one after the other, every provider call
   answered OK *)

NextTransparent ==
    \/ \E r \in DOMAIN call, selectedRouteIndex \in {0, 1}, maxDistance \in DistanceBucket :
           input < MaxRequests /\ Invoke(r, "home-work", selectedRouteIndex, maxDistance)
    \/ \E r \in DOMAIN call : DirectionsResponse(r, "OK")
    \/ \E r \in DOMAIN call : PlacesResponse(r, "OK")

SpecTransparent == InitSearch /\ [][NextTransparent]_vars

\* the module state of a process that has served no request
FreshSys ==
    [cache |-> [sar |-> <<>>, nearby |-> <<>>], calls |-> 0, reset |-> now + QuotaWindow,
     insertedAt |-> [sar |-> <<>>, nearby |-> <<>>]]

RECURSIVE RunAnswered(_)
\* a request run to its end, every place search answered OK
RunAnswered(next) ==
    IF next.c.pc = "fetch" THEN RunAnswered(AfterFetch(next.c, next.sys, "OK")) ELSE next.c

\* the SearchResult of the call on a process that has served no request
FreshResult(od, selectedRouteIndex, maxDistance) ==
    RunAnswered(AfterDirections([IdleCall EXCEPT !.pc = "directions", !.od = od,
                                                 !.selectedRouteIndex = selectedRouteIndex,
                                                 !.maxDistance = maxDistance],
                                FreshSys, "OK")).result

\* C27: with a deterministic provider the SearchResult of a call is the same
\* whatever calls were made before it: it is the result the call has on a
\* process that has served no request
C27_CacheTransparent ==
    \A r \in DOMAIN call :
        call[r].pc = "returned" =>
            call[r].result
                = FreshResult(call[r].od, call[r].selectedRouteIndex, call[r].maxDistance)


\* C28: when every place search of a request failed, nothing is stored in the
\* cache for its sample points or its route (so that a later search asks the
\* provider again)
C28_FailedSearchNotCached ==
    \A r \in DOMAIN call :
        (/\ call[r].pc = "returned"
         /\ call[r].placesFetches > 0
         /\ ~call[r].placesOk
         /\ ~call[r].fromCache)
            => /\ selectedRoute(call[r]) \notin DOMAIN simpleCache.sar
               /\ \A k \in 1..Len(call[r].searchPoints) :
                     nearbyKey(call[r].searchPoints[k]) \notin DOMAIN simpleCache.nearby


\* C29: a call with maxDistance b returns only listings whose distanceToRoute
\* is at most the mile value of b, and with the width of one mile the buckets
\* of two and of three miles of the result are empty
C29_WithinRequestedWidth ==
    \A r \in DOMAIN call :
        call[r].pc = "returned" =>
            /\ \A b \in DistanceBucket :
                  \A k \in 1..Len(call[r].result[1].apartments[b]) :
                      call[r].result[1].apartments[b][k].distanceToRoute
                          <= BucketMiles(call[r].maxDistance) * MilesScale
            /\ call[r].maxDistance = "le1mi" =>
                  /\ call[r].result[1].apartments["le2mi"] = <<>>
                  /\ call[r].result[1].apartments["le3mi"] = <<>>


-----------------------------------------------------------------------------
(* The results page: ResultsContent's search on mount and its route
   selections, with the calls of the server action in flight.  `output` is the
   component's state, `call` the calls not yet settled (in the order they were
   made), `input` the number of selections made. *)

MaxSelections == 3

\* what a call of the action can do: return its SearchResult, or throw
ActionOutcomes == {"OK", "throws"}

\* getRouteAndApartments(origin, destination, travelMode, routeIndex): the
\* width is the default of the action's last parameter
SearchResultOf(routeIndex) == FreshResult("home-work", routeIndex, "le3mi")

\* useState initial values, and the effect of the first render
InitResults ==
    /\ fn = "ResultsContent"
    /\ input = 0
    /\ output = [searchResult |-> <<>>, selectedRouteIndex |-> 0,
                 isLoading |-> TRUE, error |-> ""]
    /\ call = <<[by |-> "performSearch", routeIndex |-> 0]>>
    /\ simpleCache = [sar |-> <<>>, nearby |-> <<>>]
    /\ sarCallsThisHour = 0
    /\ sarQuotaResetTime = QuotaWindow
    /\ now = 0
    /\ insertedAt = [sar |-> <<>>, nearby |-> <<>>]

\* a click on the card of route routeIndex: RouteOptions is rendered once a
\* result with more than one route is there, and its cards stay clickable
\* while isLoading
handleRouteSelect(routeIndex) ==
    /\ input < MaxSelections
    /\ output.searchResult # <<>>
    /\ Len(output.searchResult[1].routeOptions) > 1
    /\ routeIndex + 1 \in DOMAIN output.searchResult[1].routeOptions
    /\ input' = input + 1
    /\ output' = [output EXCEPT !.selectedRouteIndex = routeIndex, !.isLoading = TRUE]
    /\ call' = Append(call, [by |-> "handleRouteSelect", routeIndex |-> routeIndex])
    /\ UNCHANGED <<fn, simpleCache, sarCallsThisHour, sarQuotaResetTime, now, insertedAt>>

\* the k-th call in flight settles: the code after the await, its catch and
\* its finally
Settled(k, outcome) ==
    /\ k \in DOMAIN call
    /\ output' = IF outcome = "OK"
                 THEN [output EXCEPT !.searchResult = SearchResultOf(call[k].routeIndex),
                                     !.isLoading = FALSE]
                 ELSE [output EXCEPT !.error = "Error", !.isLoading = FALSE]
    /\ call' = SubSeq(call, 1, k - 1) \o SubSeq(call, k + 1, Len(call))
    /\ UNCHANGED <<fn, input, simpleCache, sarCallsThisHour, sarQuotaResetTime, now, insertedAt>>

NextResults ==
    \/ \E routeIndex \in {0, 1} : handleRouteSelect(routeIndex)
    \/ \E k \in 1..(MaxSelections + 1), outcome \in ActionOutcomes : Settled(k, outcome)

SpecResults == InitResults /\ [][NextResults]_vars

\* C30: once no call is pending, the displayed searchResult is the response to
\* the most recent selection: its selectedRoute is
\* routeOptions[selectedRouteIndex]
C30_ShowsLatestSelection ==
    (call = <<>> /\ output.searchResult # <<>>)
        => output.searchResult[1].routeOptions[output.searchResult[1].selectedRoute]
               = output.searchResult[1].routeOptions[output.selectedRouteIndex + 1]

=============================================================================
